---- MODULE Spec2Model ----
(***************************************************************************)
(* SubstratumNode as state machines, one specification per component:     *)
(*   Spec               the exit-side ProxyClient actor                    *)
(*                      (node/src/proxy_client/proxy_client.rs)            *)
(*   SpecNeighborhood   NeighborhoodConfig, RouteQueryMessage and the      *)
(*                      Neighborhood's answers (sub_lib/neighborhood.rs)   *)
(*   SpecReceivableDao  ReceivableDaoReal (accountant/receivable_dao.rs)   *)
(*   SpecGossip         the Neighborhood's database under Gossip and its   *)
(*                      routes through the database                       *)
(*   SpecGossipBuilder  GossipBuilder of the multinode integration tests   *)
(*                      (multinode_integration_tests/src/gossip_builder.rs)*)
(*   SpecNodeStartupConfig  NodeStartupConfig and its builder              *)
(*                      (multinode_integration_tests/src/                  *)
(*                       substratum_real_node.rs)                          *)
(*   SpecRealNode       SubstratumRealNode::start and the loop of          *)
(*                      extract_node_reference (the same file);            *)
(*                      SpecRealNodeLive adds that the loop's commands end *)
(*                                                                         *)
(* An actor handles one message to completion before the next one.  Each   *)
(* action is one Handler<M>::handle or one call, with every call it makes. *)
(* Hopper, Accountant and the StreamHandlerPool are recorders, as in the   *)
(* unit tests of ProxyClient: they keep what ProxyClient handed to them.   *)
(***************************************************************************)
EXTENDS Integers, Sequences, FiniteSets, TLC

(***************************************************************************)
(* Bounds of the model.                                                    *)
(***************************************************************************)
\* number of messages the actor handles in one behaviour
MaxSteps == 4
\* response chunks carry 0..MaxDataLen bytes
MaxDataLen == 1

(***************************************************************************)
(* Option<T> and Result<T, E>.                                             *)
(***************************************************************************)
None == <<>>
Some(x) == <<x>>
IsSome(o) == o # <<>>
Unwrap(o) == o[1]

Ok(v) == [ok |-> TRUE, val |-> v]
Err(e) == [ok |-> FALSE, err |-> e]

(***************************************************************************)
(* Program constants.                                                      *)
(***************************************************************************)
TEMPORARY_PER_EXIT_BYTE_RATE == 2
TEMPORARY_PER_EXIT_RATE == 1

(***************************************************************************)
(* Values the messages are built from.                                     *)
(***************************************************************************)
\* StreamKey: an opaque identifier
StreamKeys == {"sk1", "sk2"}

\* PublicKey: a byte string, possibly empty (PublicKey::new(&[]))
EmptyPublicKey == <<>>
OriginatorKey == <<4, 3, 2, 1>>
OtherNodeKey == <<7, 7>>
\* the key of the local CryptDE
LocalKey == <<9, 9>>

\* Route: a list of hops, each a CryptData
OldReturnRoute == [hops |-> <<<<1, 2, 3, 4>>>>]
NewReturnRoute == [hops |-> <<<<5, 6>>, <<7, 8>>>>]

\* the address the upstream server answers from
ServerAddr == "1.2.3.4:5678"
NeighborIp == "1.2.3.4"

\* n bytes of response data
Bytes(n) == [i \in 1..n |-> 64 + i]

SequencedPacket(data, sequence_number, last_data) ==
    [data |-> data, sequence_number |-> sequence_number, last_data |-> last_data]

ClientRequestPayload(stream_key, packet, host, port, originator_public_key) ==
    [stream_key |-> stream_key,
     sequenced_packet |-> packet,
     target_hostname |-> host,
     target_port |-> port,
     protocol |-> "HTTP",
     originator_public_key |-> originator_public_key]

ClientResponsePayload(stream_key, packet) ==
    [stream_key |-> stream_key, sequenced_packet |-> packet]

(***************************************************************************)
(* CryptDE and serialization.  What is serialized keeps its type: a value  *)
(* deserializes only as the type it was serialized from.  encode seals the *)
(* bytes to a key, decode opens only what was sealed to the local key.     *)
(***************************************************************************)
Serialize(type, value) == [type |-> type, value |-> value]

Deserialize(type, bytes) ==
    IF bytes.type = type THEN Ok(bytes.value) ELSE Err("Deserialization error")

CryptDE_encode(key, bytes) ==
    IF key = EmptyPublicKey THEN Err("EmptyKey")
    ELSE Ok([sealed_to |-> key, content |-> bytes])

CryptDE_decode(own_key, crypt_data) ==
    IF crypt_data.sealed_to = own_key THEN Ok(crypt_data.content)
    ELSE Err("Decryption error: InvalidKey")

encodex(key, type, value) == CryptDE_encode(key, Serialize(type, value))

decodex(own_key, type, crypt_data) ==
    LET decoded == CryptDE_decode(own_key, crypt_data)
    IN  IF decoded.ok THEN Deserialize(type, decoded.val) ELSE decoded

\* CryptData::new(b"invalid"): bytes nobody sealed
InvalidCryptData == [sealed_to |-> <<105, 110>>, content |-> Serialize("bytes", <<>>)]

(***************************************************************************)
(* ExpiredCoresPackage, IncipientCoresPackage (sub_lib/hopper).            *)
(***************************************************************************)
ExpiredCoresPackage(immediate_neighbor_ip, consuming_wallet, remaining_route, payload) ==
    [immediate_neighbor_ip |-> immediate_neighbor_ip,
     consuming_wallet |-> consuming_wallet,
     remaining_route |-> remaining_route,
     payload |-> payload]

\* ExpiredCoresPackage::payload::<ClientRequestPayload>(cryptde)
ExpiredCoresPackage_payload(msg) ==
    decodex(LocalKey, "ClientRequestPayload", msg.payload)

\* IncipientCoresPackage::new(cryptde, route, payload, key)
IncipientCoresPackage_new(route, payload, key) ==
    LET encrypted == encodex(key, "ClientResponsePayload", payload)
    IN  IF encrypted.ok
        THEN Ok([route |-> route,
                 payload |-> encrypted.val,
                 payload_destination_key |-> key])
        ELSE Err(<<"Could not encrypt payload", encrypted.err>>)

InboundServerData(stream_key, last_data, sequence_number, source, data) ==
    [stream_key |-> stream_key,
     last_data |-> last_data,
     sequence_number |-> sequence_number,
     source |-> source,
     data |-> data]

ReportExitServiceProvidedMessage(consuming_wallet, payload_size, service_rate, byte_rate) ==
    [consuming_wallet |-> consuming_wallet,
     payload_size |-> payload_size,
     service_rate |-> service_rate,
     byte_rate |-> byte_rate]

StreamContext(return_route, payload_destination_key, consuming_wallet) ==
    [return_route |-> return_route,
     payload_destination_key |-> payload_destination_key,
     consuming_wallet |-> consuming_wallet]

LogEntry(level, text, args) == [level |-> level, text |-> text, args |-> args]

(***************************************************************************)
(* The messages the environment sends to the actor.                        *)
(***************************************************************************)
\* the DNS server lists ProxyClient::new is called with
DnsServerLists == {<<>>, <<"8.8.8.8:53">>, <<"4.3.2.1:4321", "5.4.3.2:5432">>}

RequestPacket(stream_key) ==
    IF stream_key = "sk1"
    THEN SequencedPacket(<<71, 69, 84>>, 0, FALSE)
    ELSE SequencedPacket(<<>>, 3, TRUE)

Request(stream_key, originator_public_key) ==
    ClientRequestPayload(stream_key, RequestPacket(stream_key),
                         IF stream_key = "sk1" THEN Some("example.com") ELSE None,
                         IF stream_key = "sk1" THEN 80 ELSE 0,
                         originator_public_key)

\* (consuming wallet, return route, originator key) of the packages taken
PackageShapes ==
    {<<Some("consuming"), OldReturnRoute, OriginatorKey>>,
     <<Some("gnimusnoc"), NewReturnRoute, OriginatorKey>>,
     <<None, NewReturnRoute, OriginatorKey>>,
     <<Some("consuming"), NewReturnRoute, EmptyPublicKey>>,
     <<None, OldReturnRoute, EmptyPublicKey>>}

DecodablePackages ==
    {ExpiredCoresPackage(NeighborIp, sh[1], sh[2],
                         encodex(LocalKey, "ClientRequestPayload", Request(k, sh[3])).val) :
        k \in StreamKeys, sh \in PackageShapes}

UndecodablePackages ==
    {ExpiredCoresPackage(NeighborIp, Some("consuming"), NewReturnRoute, InvalidCryptData),
     ExpiredCoresPackage(NeighborIp, None, OldReturnRoute,
                         encodex(OtherNodeKey, "ClientRequestPayload",
                                 Request("sk1", OriginatorKey)).val),
     ExpiredCoresPackage(NeighborIp, Some("gnimusnoc"), OldReturnRoute,
                         encodex(LocalKey, "ClientResponsePayload",
                                 ClientResponsePayload("sk2", SequencedPacket(<<>>, 0, TRUE))).val)}

ExpiredCoresPackages == DecodablePackages \cup UndecodablePackages

\* the reader of a stream numbers its chunks; the last one is numbered one more
FirstSequenceNumber == 1234

\* error_socket_addr(): the source of a response no server sent
error_socket_addr == "0.0.0.0:0"

\* ClientResponsePayload::make_terminating_payload
make_terminating_payload(stream_key) ==
    ClientResponsePayload(stream_key, SequencedPacket(<<>>, 0, TRUE))

\* the responses that end a stream no server answered on: what ProxyClient
\* makes of them is the terminating payload
TerminatingInboundServerDatas ==
    {InboundServerData(k, TRUE, 0, error_socket_addr, <<>>) : k \in StreamKeys}

InboundServerDatas ==
    {InboundServerData(k, ld, FirstSequenceNumber + (IF ld THEN 1 ELSE 0), ServerAddr, Bytes(n)) :
        k \in StreamKeys, ld \in BOOLEAN, n \in 0..MaxDataLen}
    \cup TerminatingInboundServerDatas

\* what Recipient::try_send answers: Ok, or SendError::Full / SendError::Closed
SendResults == {"Ok", "Full", "Closed"}

(***************************************************************************)
(* State.                                                                  *)
(***************************************************************************)
VARIABLES
    \* the actor (struct ProxyClient)
    dns_servers,        \* Vec<SocketAddr>
    to_hopper,          \* Option<Recipient<IncipientCoresPackage>>
    to_accountant,      \* Option<Recipient<ReportExitServiceProvidedMessage>>
    pool,               \* Option<Box<dyn StreamHandlerPool>>
    stream_contexts,    \* HashMap<StreamKey, StreamContext>
    pc,                 \* "running", or "panicked" once a handler or new() panicked
    panic_message,      \* Option: what the actor panicked with
    \* the collaborators, recording what the actor hands to them
    hopper_recording,               \* try_sends to Hopper, each with its answer
    accountant_recording,           \* try_sends to Accountant, each with its answer
    process_package_parameters,     \* calls of StreamHandlerPool::process_package
    resolver_wrapper_new_parameters,\* calls of ResolverWrapperFactory::make
    pool_factory_make_parameters,   \* calls of StreamHandlerPoolFactory::make
    \* the handler that ran last
    handled,                \* Option: the message it handled
    emitted,                \* what it sent, called and logged
    prev_stream_contexts,   \* stream_contexts when it began
    nhandled,               \* number of messages handled so far
    \* the history of each stream
    latest_request,         \* per key, Option: the last package accepted for it
    closed                  \* per key: a last_data response went to Hopper since

VARIABLES
    \* the Neighborhood and the ProxyServer asking it for routes
    neighborhood_config,        \* the NeighborhoodConfig the node was started with
    is_decentralized_result,    \* Option: what is_decentralized() returned last
    route_request,              \* Option: the last data_indefinite_route_request
    route_query,                \* Option: the RouteQueryMessage handled last
    route_response,             \* Option: the answer to it, an Option itself
    database,                   \* NeighborhoodDatabase: per key, Option: the record
    gossips_handled             \* number of Gossips handled so far

VARIABLES
    \* the receivable table behind ReceivableDaoReal
    receivable,                 \* per wallet address, Option: the row
    dao_clock,                  \* SystemTime::now(), in half seconds
    dao_called,                 \* per wallet, what was asked of the DAO so far
    dao_ncalls,                 \* number of calls of the DAO so far
    account_status_result,      \* Option: the last account_status call and result
    dao_last_call,              \* Option: the last call and the statement that failed
    dao_panic                   \* Option: what a DAO call panicked with

VARIABLES
    \* the GossipBuilder of the multinode integration tests
    builder,                    \* Option: the GossipBuilder, None once build took it
    gossip_result,              \* Option: what build() returned or panicked with
    builder_calls               \* the calls the test made of the builder: those that
                                \* add a record and those that add a connection, each
                                \* kind in call order

VARIABLES
    \* NodeStartupConfigBuilder and NodeStartupConfig of the integration tests
    startup_builder,            \* Option: the NodeStartupConfigBuilder
    startup_config,             \* Option: the NodeStartupConfig built last
    make_args_result,           \* Option: the arguments make_args returned last
    startup_last_call,          \* the call made last, with its argument
    startup_calls               \* number of calls made so far

VARIABLES
    \* SubstratumRealNode::start and the container it starts
    start_call,                 \* Option: the arguments start was called with
    real_startup_config,        \* Option: the NodeStartupConfig the node is run with
    docker_run,                 \* Option: the arguments of the docker run command
    retries_left,               \* the local of extract_node_reference
    poll_answers,               \* what each docker logs command answered, in order
    node_reference_result,      \* Option: what extract_node_reference returned
    guts,                       \* Option: SubstratumRealNodeGuts of the started node
    start_pc,                   \* "absent", "ready", "extracting", "started", "panicked"
    start_panic                 \* Option: what start panicked with

proxy_client_vars ==
    <<dns_servers, to_hopper, to_accountant, pool, stream_contexts, pc,
      panic_message, hopper_recording, accountant_recording,
      process_package_parameters, resolver_wrapper_new_parameters,
      pool_factory_make_parameters, handled, emitted, prev_stream_contexts,
      nhandled, latest_request, closed>>

neighborhood_vars ==
    <<neighborhood_config, is_decentralized_result, route_request, route_query,
      route_response, database, gossips_handled>>

receivable_dao_vars ==
    <<receivable, dao_clock, dao_called, dao_ncalls, account_status_result,
      dao_last_call, dao_panic>>

gossip_builder_vars == <<builder, gossip_result, builder_calls>>

\* the variables of the multinode integration tests
node_startup_vars ==
    <<startup_builder, startup_config, make_args_result, startup_last_call,
      startup_calls>>

real_node_vars ==
    <<start_call, real_startup_config, docker_run, retries_left, poll_answers,
      node_reference_result, guts, start_pc, start_panic>>

multinode_vars == <<gossip_builder_vars, node_startup_vars, real_node_vars>>

vars == <<proxy_client_vars, neighborhood_vars, receivable_dao_vars, multinode_vars>>

\* the components a specification does not run stay as they are before startup
NeighborhoodAbsent ==
    /\ neighborhood_config = None
    /\ is_decentralized_result = None
    /\ route_request = None
    /\ route_query = None
    /\ route_response = None
    /\ database = None
    /\ gossips_handled = 0

GossipBuilderAbsent ==
    /\ builder = None
    /\ gossip_result = None
    /\ builder_calls = <<>>

NodeStartupAbsent ==
    /\ startup_builder = None
    /\ startup_config = None
    /\ make_args_result = None
    /\ startup_last_call = None
    /\ startup_calls = 0

RealNodeAbsent ==
    /\ start_call = None
    /\ real_startup_config = None
    /\ docker_run = None
    /\ retries_left = 0
    /\ poll_answers = <<>>
    /\ node_reference_result = None
    /\ guts = None
    /\ start_pc = "absent"
    /\ start_panic = None

MultinodeAbsent == GossipBuilderAbsent /\ NodeStartupAbsent /\ RealNodeAbsent

ReceivableDaoAbsent ==
    /\ receivable = None
    /\ dao_clock = 0
    /\ dao_called = None
    /\ dao_ncalls = 0
    /\ account_status_result = None
    /\ dao_last_call = None
    /\ dao_panic = None

NothingEmitted == [hopper |-> <<>>, accountant |-> <<>>, pool |-> <<>>, log |-> <<>>]

\* HashMap::new()
EmptyStreamContexts == [k \in StreamKeys |-> None]

(***************************************************************************)
(* ProxyClient::new                                                        *)
(***************************************************************************)
\* a constructor that takes any list
ProxyClient_new_unchecked(servers) ==
    Ok([dns_servers |-> servers,
        to_hopper |-> None,
        to_accountant |-> None,
        pool |-> None,
        stream_contexts |-> EmptyStreamContexts])

ProxyClient_new(servers) ==
    IF servers = <<>>
    THEN Err("Proxy Client requires at least one DNS server IP address after the --dns_servers parameter")
    ELSE Ok([dns_servers |-> servers,
             to_hopper |-> None,
             to_accountant |-> None,
             pool |-> None,
             stream_contexts |-> EmptyStreamContexts])

Init ==
    \E servers \in DnsServerLists :
        LET made == ProxyClient_new(servers)
        IN  /\ dns_servers = servers
            /\ to_hopper = IF made.ok THEN made.val.to_hopper ELSE None
            /\ to_accountant = IF made.ok THEN made.val.to_accountant ELSE None
            /\ pool = IF made.ok THEN made.val.pool ELSE None
            /\ stream_contexts = IF made.ok THEN made.val.stream_contexts
                                 ELSE EmptyStreamContexts
            /\ pc = IF made.ok THEN "running" ELSE "panicked"
            /\ panic_message = IF made.ok THEN None ELSE Some(made.err)
            /\ hopper_recording = <<>>
            /\ accountant_recording = <<>>
            /\ process_package_parameters = <<>>
            /\ resolver_wrapper_new_parameters = <<>>
            /\ pool_factory_make_parameters = <<>>
            /\ handled = None
            /\ emitted = NothingEmitted
            /\ prev_stream_contexts = EmptyStreamContexts
            /\ nhandled = 0
            /\ latest_request = [k \in StreamKeys |-> None]
            /\ closed = [k \in StreamKeys |-> FALSE]
            /\ NeighborhoodAbsent
            /\ ReceivableDaoAbsent
            /\ MultinodeAbsent

(***************************************************************************)
(* The private parts of the handlers.                                      *)
(***************************************************************************)
\* HashMap::get, HashMap::insert, HashMap::remove on stream_contexts
stream_contexts_get(contexts, stream_key) == contexts[stream_key]

\* an insert that keeps the context a key already has (entry().or_insert())
stream_contexts_insert_if_absent(contexts, stream_key, stream_context) ==
    IF IsSome(contexts[stream_key]) THEN contexts
    ELSE [contexts EXCEPT ![stream_key] = Some(stream_context)]

stream_contexts_insert(contexts, stream_key, stream_context) ==
    [contexts EXCEPT ![stream_key] = Some(stream_context)]

\* a remove that leaves the map as it is
stream_contexts_remove_nothing(contexts, stream_key) == contexts

stream_contexts_remove(contexts, stream_key) ==
    [contexts EXCEPT ![stream_key] = None]

\* a StreamContext addressed to the local node instead of the originator
latest_stream_context_local_key(msg, payload) ==
    StreamContext(msg.remaining_route, LocalKey, msg.consuming_wallet)

\* the StreamContext built from a package and its decoded payload
latest_stream_context(msg, payload) ==
    StreamContext(msg.remaining_route,
                  payload.originator_public_key,
                  msg.consuming_wallet)

\* arguments that keep the wallet the stream already had
process_package_arguments_stored_wallet(msg, payload) ==
    <<payload,
      IF IsSome(stream_contexts[payload.stream_key])
      THEN Unwrap(stream_contexts[payload.stream_key]).consuming_wallet
      ELSE msg.consuming_wallet>>

\* the arguments of pool.process_package
process_package_arguments(msg, payload) == <<payload, msg.consuming_wallet>>

\* what a handler does: the new map, what it sends and calls, what it logs, and
\* the panic that ended it (None when it returned)
Effect(contexts, hopper, accountant, pool_calls, log, panic) ==
    [contexts |-> contexts, hopper |-> hopper, accountant |-> accountant,
     pool |-> pool_calls, log |-> log, panic |-> panic]

Sent(message, result) == [msg |-> message, result |-> result]

\* a response payload that loses the end-of-stream mark
response_payload_not_last(msg) ==
    ClientResponsePayload(msg.stream_key,
                          SequencedPacket(msg.data, msg.sequence_number, FALSE))

\* a response payload numbered by ProxyClient's own count of responses
response_payload_renumbered(msg) ==
    ClientResponsePayload(msg.stream_key,
                          SequencedPacket(msg.data, Len(hopper_recording), msg.last_data))

\* the ClientResponsePayload built from an InboundServerData
response_payload(msg) ==
    ClientResponsePayload(msg.stream_key,
                          SequencedPacket(msg.data, msg.sequence_number, msg.last_data))

\* ProxyClient::send_response_to_hopper; answer is what Hopper's mailbox answers
send_response_to_hopper(msg, stream_context, answer) ==
    LET payload == response_payload(msg)
        icp == IncipientCoresPackage_new(stream_context.return_route, payload,
                                         stream_context.payload_destination_key)
    IN  IF ~icp.ok
        THEN [ok |-> FALSE, hopper |-> <<>>,
              log |-> <<LogEntry("ERROR", "Could not create CORES package for response: ignoring",
                                 <<Len(msg.data), msg.source, msg.sequence_number, icp.err>>)>>,
              panic |-> None]
        ELSE IF to_hopper = None
        THEN [ok |-> FALSE, hopper |-> <<>>, log |-> <<>>, panic |-> Some("Hopper unbound")]
        ELSE IF answer # "Ok"
        THEN [ok |-> FALSE, hopper |-> <<Sent(icp.val, answer)>>, log |-> <<>>,
              panic |-> Some("Hopper is dead")]
        ELSE [ok |-> TRUE, hopper |-> <<Sent(icp.val, answer)>>, log |-> <<>>, panic |-> None]

\* an exit report with the two rates exchanged
exit_report_rates_exchanged(consuming_wallet, msg_data_len) ==
    ReportExitServiceProvidedMessage(consuming_wallet, msg_data_len,
                                     TEMPORARY_PER_EXIT_BYTE_RATE,
                                     TEMPORARY_PER_EXIT_RATE)

\* the ReportExitServiceProvidedMessage for a response of msg_data_len bytes
exit_report_message(consuming_wallet, msg_data_len) ==
    ReportExitServiceProvidedMessage(consuming_wallet, msg_data_len,
                                     TEMPORARY_PER_EXIT_RATE,
                                     TEMPORARY_PER_EXIT_BYTE_RATE)

\* a report that bills an empty wallet when the stream has none
report_response_exit_to_accountant_always(stream_context, msg_data_len, answer) ==
    LET wallet == IF IsSome(stream_context.consuming_wallet)
                  THEN Unwrap(stream_context.consuming_wallet) ELSE ""
    IN  IF answer # "Ok"
        THEN [accountant |-> <<Sent(exit_report_message(wallet, msg_data_len), answer)>>,
              log |-> <<>>, panic |-> Some("Accountant is dead")]
        ELSE [accountant |-> <<Sent(exit_report_message(wallet, msg_data_len), answer)>>,
              log |-> <<>>, panic |-> None]

\* a report that is left out when the response carries no data
report_response_exit_to_accountant_skips_empty(stream_context, msg_data_len, answer) ==
    IF IsSome(stream_context.consuming_wallet) /\ msg_data_len > 0
    THEN LET exit_report == exit_report_message(
                                Unwrap(stream_context.consuming_wallet), msg_data_len)
         IN  IF to_accountant = None
             THEN [accountant |-> <<>>, log |-> <<>>, panic |-> Some("Accountant unbound")]
             ELSE IF answer # "Ok"
             THEN [accountant |-> <<Sent(exit_report, answer)>>, log |-> <<>>,
                   panic |-> Some("Accountant is dead")]
             ELSE [accountant |-> <<Sent(exit_report, answer)>>, log |-> <<>>, panic |-> None]
    ELSE [accountant |-> <<>>,
          log |-> <<LogEntry("DEBUG", "Relayed response without consuming wallet for free",
                             <<msg_data_len>>)>>,
          panic |-> None]

\* ProxyClient::report_response_exit_to_accountant; answer is what Accountant's
\* mailbox answers
report_response_exit_to_accountant(stream_context, msg_data_len, answer) ==
    IF IsSome(stream_context.consuming_wallet)
    THEN LET exit_report == exit_report_message(
                                Unwrap(stream_context.consuming_wallet), msg_data_len)
         IN  IF to_accountant = None
             THEN [accountant |-> <<>>, log |-> <<>>, panic |-> Some("Accountant unbound")]
             ELSE IF answer # "Ok"
             THEN [accountant |-> <<Sent(exit_report, answer)>>, log |-> <<>>,
                   panic |-> Some("Accountant is dead")]
             ELSE [accountant |-> <<Sent(exit_report, answer)>>, log |-> <<>>, panic |-> None]
    ELSE [accountant |-> <<>>,
          log |-> <<LogEntry("DEBUG", "Relayed response without consuming wallet for free",
                             <<msg_data_len>>)>>,
          panic |-> None]

\* an Err arm that unwraps the payload
uninterpretable_payload_unwraps(msg, error) ==
    Effect(stream_contexts, <<>>, <<>>, <<>>, <<>>,
           Some("called Result::unwrap() on an Err value"))

\* the Err arm of the payload match: log and return
uninterpretable_payload(msg, error) ==
    Effect(stream_contexts, <<>>, <<>>, <<>>,
           <<LogEntry("ERROR", "Error interpreting payload for transmission", <<error>>)>>,
           None)

\* a None arm that expects the context to be there
unsolicited_response_panics(msg) ==
    Effect(stream_contexts, <<>>, <<>>, <<>>, <<>>, Some("stream context missing"))

\* the None arm of the stream context match: log and return
unsolicited_response(msg) ==
    Effect(stream_contexts, <<>>, <<>>, <<>>,
           <<LogEntry("ERROR", "Received unsolicited response: ignoring",
                      <<Len(msg.data), msg.source, msg.sequence_number>>)>>,
           None)

\* a handler that hands the payload to the pool and stores no StreamContext
handle_ExpiredCoresPackage_forgets_context(msg) ==
    LET decoded == ExpiredCoresPackage_payload(msg)
    IN  IF ~decoded.ok
        THEN uninterpretable_payload(msg, decoded.err)
        ELSE IF pool = None
        THEN Effect(stream_contexts, <<>>, <<>>, <<>>, <<>>, Some("StreamHandlerPool unbound"))
        ELSE Effect(stream_contexts, <<>>, <<>>,
                    <<process_package_arguments(msg, decoded.val)>>,
                    <<LogEntry("DEBUG", "ExpiredCoresPackage handled", <<>>)>>,
                    None)

\* a handler that does without the pool when there is none
handle_ExpiredCoresPackage_without_pool(msg) ==
    LET decoded == ExpiredCoresPackage_payload(msg)
    IN  IF ~decoded.ok
        THEN uninterpretable_payload(msg, decoded.err)
        ELSE LET payload == decoded.val
             IN  Effect(stream_contexts_insert(stream_contexts, payload.stream_key,
                                               latest_stream_context(msg, payload)),
                        <<>>, <<>>,
                        IF pool = None THEN <<>>
                        ELSE <<process_package_arguments(msg, payload)>>,
                        <<LogEntry("DEBUG", "ExpiredCoresPackage handled", <<>>)>>,
                        None)

\* a handler that stores the StreamContext before it looks for the pool
handle_ExpiredCoresPackage_stores_first(msg) ==
    LET decoded == ExpiredCoresPackage_payload(msg)
    IN  IF ~decoded.ok
        THEN uninterpretable_payload(msg, decoded.err)
        ELSE LET payload == decoded.val
                 inserted == stream_contexts_insert(stream_contexts, payload.stream_key,
                                                    latest_stream_context(msg, payload))
             IN  IF pool = None
                 THEN Effect(inserted, <<>>, <<>>, <<>>, <<>>,
                             Some("StreamHandlerPool unbound"))
                 ELSE Effect(inserted, <<>>, <<>>,
                             <<process_package_arguments(msg, payload)>>,
                             <<LogEntry("DEBUG", "ExpiredCoresPackage handled", <<>>)>>,
                             None)

\* Handler<ExpiredCoresPackage>::handle
handle_ExpiredCoresPackage(msg) ==
    LET decoded == ExpiredCoresPackage_payload(msg)
    IN  IF ~decoded.ok
        THEN uninterpretable_payload(msg, decoded.err)
        ELSE IF pool = None
        THEN Effect(stream_contexts, <<>>, <<>>, <<>>, <<>>, Some("StreamHandlerPool unbound"))
        ELSE LET payload == decoded.val
             IN  Effect(stream_contexts_insert(stream_contexts, payload.stream_key,
                                               latest_stream_context(msg, payload)),
                        <<>>, <<>>,
                        <<process_package_arguments(msg, payload)>>,
                        <<LogEntry("DEBUG", "ExpiredCoresPackage handled", <<>>)>>,
                        None)

\* a handler that reports the exit to Accountant before it sends to Hopper
handle_InboundServerData_reports_first(msg, hopper_answer, accountant_answer) ==
    LET found == stream_contexts_get(stream_contexts, msg.stream_key)
    IN  IF ~IsSome(found)
        THEN unsolicited_response(msg)
        ELSE LET stream_context == Unwrap(found)
                 reported == report_response_exit_to_accountant(
                                 stream_context, Len(msg.data), accountant_answer)
                 sent == send_response_to_hopper(msg, stream_context, hopper_answer)
             IN  IF IsSome(reported.panic)
                 THEN Effect(stream_contexts, <<>>, reported.accountant, <<>>,
                             reported.log, reported.panic)
                 ELSE IF ~sent.ok
                 THEN Effect(stream_contexts, sent.hopper, reported.accountant, <<>>,
                             reported.log \o sent.log, sent.panic)
                 ELSE Effect(IF msg.last_data
                             THEN stream_contexts_remove(stream_contexts, msg.stream_key)
                             ELSE stream_contexts,
                             sent.hopper, reported.accountant, <<>>,
                             reported.log \o sent.log, None)

\* a handler that goes on to the exit report when the response was not sent
handle_InboundServerData_reports_unsent(msg, hopper_answer, accountant_answer) ==
    LET found == stream_contexts_get(stream_contexts, msg.stream_key)
    IN  IF ~IsSome(found)
        THEN unsolicited_response(msg)
        ELSE LET stream_context == Unwrap(found)
                 sent == send_response_to_hopper(msg, stream_context, hopper_answer)
                 reported == report_response_exit_to_accountant(
                                 stream_context, Len(msg.data), accountant_answer)
             IN  IF IsSome(sent.panic)
                 THEN Effect(stream_contexts, sent.hopper, <<>>, <<>>, sent.log, sent.panic)
                 ELSE Effect(stream_contexts, sent.hopper, reported.accountant, <<>>,
                             sent.log \o reported.log, reported.panic)

\* Handler<InboundServerData>::handle
handle_InboundServerData(msg, hopper_answer, accountant_answer) ==
    LET found == stream_contexts_get(stream_contexts, msg.stream_key)
    IN  IF ~IsSome(found)
        THEN unsolicited_response(msg)
        ELSE LET stream_context == Unwrap(found)
                 sent == send_response_to_hopper(msg, stream_context, hopper_answer)
                 reported == report_response_exit_to_accountant(
                                 stream_context, Len(msg.data), accountant_answer)
             IN  IF ~sent.ok
                 THEN Effect(stream_contexts, sent.hopper, <<>>, <<>>, sent.log, sent.panic)
                 ELSE IF IsSome(reported.panic)
                 THEN Effect(stream_contexts, sent.hopper, reported.accountant, <<>>,
                             sent.log \o reported.log, reported.panic)
                 ELSE Effect(IF msg.last_data
                             THEN stream_contexts_remove(stream_contexts, msg.stream_key)
                             ELSE stream_contexts,
                             sent.hopper, reported.accountant, <<>>,
                             sent.log \o reported.log, None)

(***************************************************************************)
(* Actions: the actor takes one message and handles it to completion.      *)
(***************************************************************************)
Message(type, msg) == [type |-> type, msg |-> msg]

CanHandle == pc = "running" /\ nhandled < MaxSteps

\* the ClientRequestPayload sealed in a package that decodes
RequestOf(package) == ExpiredCoresPackage_payload(package).val

\* the handler took the package as a request: it decoded and the handler returned
Accepted(message, effect) ==
    /\ message.type = "ExpiredCoresPackage"
    /\ ExpiredCoresPackage_payload(message.msg).ok
    /\ effect.panic = None

\* the handler passed a last_data response on and Hopper's mailbox took it
LastDataForwarded(message, effect) ==
    /\ message.type = "InboundServerData"
    /\ message.msg.last_data
    /\ effect.hopper # <<>>
    /\ effect.hopper[1].result = "Ok"

\* the state after a handler of a data message ran with the given effect
Commit(message, effect) ==
    /\ stream_contexts' = effect.contexts
    /\ hopper_recording' = hopper_recording \o effect.hopper
    /\ accountant_recording' = accountant_recording \o effect.accountant
    /\ process_package_parameters' = process_package_parameters \o effect.pool
    /\ pc' = IF IsSome(effect.panic) THEN "panicked" ELSE "running"
    /\ panic_message' = effect.panic
    /\ handled' = Some(message)
    /\ emitted' = [hopper |-> effect.hopper, accountant |-> effect.accountant,
                   pool |-> effect.pool, log |-> effect.log]
    /\ prev_stream_contexts' = stream_contexts
    /\ nhandled' = nhandled + 1
    /\ latest_request' = IF Accepted(message, effect)
                         THEN [latest_request EXCEPT
                                  ![RequestOf(message.msg).stream_key] = Some(message.msg)]
                         ELSE latest_request
    /\ closed' = IF Accepted(message, effect)
                 THEN [closed EXCEPT ![RequestOf(message.msg).stream_key] = FALSE]
                 ELSE IF LastDataForwarded(message, effect)
                 THEN [closed EXCEPT ![message.msg.stream_key] = TRUE]
                 ELSE closed
    /\ UNCHANGED <<dns_servers, to_hopper, to_accountant, pool,
                   resolver_wrapper_new_parameters, pool_factory_make_parameters>>
    /\ UNCHANGED <<neighborhood_vars, receivable_dao_vars, multinode_vars>>

\* a ResolverConfig that lists the name servers last first
resolver_config_reversed(servers) ==
    [domain |-> None,
     search |-> <<>>,
     name_servers |-> [i \in 1..Len(servers) |->
                          [socket_addr |-> servers[Len(servers) + 1 - i],
                           protocol |-> "Udp",
                           tls_dns_name |-> None]]]

\* the ResolverConfig Bind builds: one UDP name server per DNS server
resolver_config(servers) ==
    [domain |-> None,
     search |-> <<>>,
     name_servers |-> [i \in 1..Len(servers) |->
                          [socket_addr |-> servers[i], protocol |-> "Udp",
                           tls_dns_name |-> None]]]

\* Handler<BindMessage>::handle
HandleBindMessage ==
    /\ CanHandle
    /\ to_hopper' = Some("hopper.from_hopper_client")
    /\ to_accountant' = Some("accountant.report_exit_service_provided")
    /\ resolver_wrapper_new_parameters' =
           Append(resolver_wrapper_new_parameters,
                  <<resolver_config(dns_servers), "ResolverOpts::default()">>)
    /\ pool_factory_make_parameters' =
           Append(pool_factory_make_parameters,
                  [resolver |-> Len(resolver_wrapper_new_parameters) + 1,
                   cryptde |-> LocalKey,
                   accountant_sub |-> "accountant.report_exit_service_provided",
                   proxy_client_sub |-> "proxy_client.inbound_server_data"])
    /\ pool' = Some(Len(pool_factory_make_parameters) + 1)
    /\ handled' = Some(Message("BindMessage", <<>>))
    /\ emitted' = [NothingEmitted EXCEPT !.log =
                      <<LogEntry("DEBUG", "Handling BindMessage", <<>>)>>
                      \o [i \in 1..Len(dns_servers) |->
                             LogEntry("INFO", "Adding DNS server", <<dns_servers[i]>>)]]
    /\ prev_stream_contexts' = stream_contexts
    /\ nhandled' = nhandled + 1
    /\ UNCHANGED <<dns_servers, stream_contexts, pc, panic_message, hopper_recording,
                   accountant_recording, process_package_parameters, latest_request,
                   closed>>
    /\ UNCHANGED <<neighborhood_vars, receivable_dao_vars, multinode_vars>>

HandleExpiredCoresPackage ==
    /\ CanHandle
    /\ \E msg \in ExpiredCoresPackages :
           Commit(Message("ExpiredCoresPackage", msg), handle_ExpiredCoresPackage(msg))

HandleInboundServerData ==
    /\ CanHandle
    /\ \E msg \in InboundServerDatas, hopper_answer \in SendResults,
          accountant_answer \in SendResults :
           Commit(Message("InboundServerData", msg),
                  handle_InboundServerData(msg, hopper_answer, accountant_answer))

Next ==
    \/ HandleBindMessage
    \/ HandleExpiredCoresPackage
    \/ HandleInboundServerData

Spec == Init /\ [][Next]_vars

(***************************************************************************)
(* What the claims speak about: the handler that ran last.                 *)
(***************************************************************************)
HandledIs(type) == IsSome(handled) /\ Unwrap(handled).type = type
HandledMsg == Unwrap(handled).msg
\* the handler that ran last handled a package whose payload decodes
HandledRequest ==
    HandledIs("ExpiredCoresPackage") /\ ExpiredCoresPackage_payload(HandledMsg).ok
\* the handler that ran last handled a response and found a StreamContext for it
HandledSolicited ==
    HandledIs("InboundServerData") /\ IsSome(prev_stream_contexts[HandledMsg.stream_key])
\* the StreamContext that handler found
FoundContext == Unwrap(prev_stream_contexts[HandledMsg.stream_key])

(***************************************************************************)
(* C1: after a bound ProxyClient handled an ExpiredCoresPackage whose      *)
(* payload decodes, the StreamContext under the payload's stream_key is    *)
(* exactly (the package's remaining_route, the payload's                   *)
(* originator_public_key, the package's consuming_wallet), whatever was    *)
(* stored before, and the contexts of all other keys are as before.        *)
(***************************************************************************)
C1_LatestPackageWins ==
    (HandledRequest /\ pool # None) =>
        LET msg == HandledMsg
            payload == RequestOf(msg)
        IN  /\ pc = "running"
            /\ stream_contexts[payload.stream_key] =
                   Some([return_route |-> msg.remaining_route,
                         payload_destination_key |-> payload.originator_public_key,
                         consuming_wallet |-> msg.consuming_wallet])
            /\ \A k \in StreamKeys \ {payload.stream_key} :
                   stream_contexts[k] = prev_stream_contexts[k]

\* a package replaced a context with another route while another stream is open
C1_Witness ==
    /\ HandledRequest
    /\ pool # None
    /\ LET k == RequestOf(HandledMsg).stream_key
       IN  /\ IsSome(prev_stream_contexts[k])
           /\ Unwrap(prev_stream_contexts[k]).return_route # HandledMsg.remaining_route
           /\ Unwrap(prev_stream_contexts[k]).consuming_wallet # HandledMsg.consuming_wallet
           /\ \E other \in StreamKeys \ {k} : IsSome(stream_contexts[other])

C3_OnePackagePerResponse ==
    (HandledSolicited /\ FoundContext.payload_destination_key # EmptyPublicKey) =>
        /\ Len(emitted.hopper) = 1
        /\ LET icp == emitted.hopper[1].msg
               msg == HandledMsg
           IN  /\ icp.route = FoundContext.return_route
               /\ icp.payload_destination_key = FoundContext.payload_destination_key
               /\ decodex(FoundContext.payload_destination_key, "ClientResponsePayload",
                          icp.payload) =
                      Ok([stream_key |-> msg.stream_key,
                          sequenced_packet |->
                              [data |-> msg.data,
                               sequence_number |-> msg.sequence_number,
                               last_data |-> msg.last_data]])
        /\ hopper_recording # <<>>
        /\ hopper_recording[Len(hopper_recording)] = emitted.hopper[1]

\* a last chunk with data in it went to Hopper
C3_Witness ==
    /\ HandledSolicited
    /\ FoundContext.payload_destination_key # EmptyPublicKey
    /\ HandledMsg.last_data
    /\ HandledMsg.data # <<>>
    /\ Len(emitted.hopper) = 1
    /\ emitted.hopper[1].result = "Ok"

(***************************************************************************)
(* C4: for an InboundServerData that was forwarded to Hopper and whose     *)
(* StreamContext has a consuming wallet, exactly one                       *)
(* ReportExitServiceProvidedMessage is sent to Accountant: the context's   *)
(* wallet, payload_size the number of data bytes, service_rate 1           *)
(* (TEMPORARY_PER_EXIT_RATE), byte_rate 2 (TEMPORARY_PER_EXIT_BYTE_RATE).  *)
(***************************************************************************)
C4_OneReportPerPaidResponse ==
    (/\ HandledSolicited
     /\ emitted.hopper # <<>>
     /\ emitted.hopper[1].result = "Ok"
     /\ IsSome(FoundContext.consuming_wallet)) =>
        /\ Len(emitted.accountant) = 1
        /\ emitted.accountant[1].msg =
               [consuming_wallet |-> Unwrap(FoundContext.consuming_wallet),
                payload_size |-> Len(HandledMsg.data),
                service_rate |-> 1,
                byte_rate |-> 2]
        /\ TEMPORARY_PER_EXIT_RATE = 1
        /\ TEMPORARY_PER_EXIT_BYTE_RATE = 2
        /\ accountant_recording # <<>>
        /\ accountant_recording[Len(accountant_recording)] = emitted.accountant[1]

\* a chunk with data in it was billed
C4_Witness ==
    /\ HandledSolicited
    /\ emitted.hopper # <<>>
    /\ emitted.hopper[1].result = "Ok"
    /\ FoundContext.consuming_wallet = Some("gnimusnoc")
    /\ Len(HandledMsg.data) > 0
    /\ Len(emitted.accountant) = 1
    /\ emitted.accountant[1].result = "Ok"

C6_UnsolicitedIsOnlyLogged ==
    (HandledIs("InboundServerData") /\ prev_stream_contexts[HandledMsg.stream_key] = None) =>
        /\ emitted.hopper = <<>>
        /\ emitted.accountant = <<>>
        /\ emitted.pool = <<>>
        /\ stream_contexts = prev_stream_contexts
        /\ pc = "running"
        /\ panic_message = None
        /\ emitted.log = <<LogEntry("ERROR", "Received unsolicited response: ignoring",
                                    <<Len(HandledMsg.data), HandledMsg.source,
                                      HandledMsg.sequence_number>>)>>

\* an unsolicited last_data response arrives while another stream is open
C6_Witness ==
    /\ HandledIs("InboundServerData")
    /\ prev_stream_contexts[HandledMsg.stream_key] = None
    /\ HandledMsg.last_data
    /\ \E other \in StreamKeys : IsSome(stream_contexts[other])
    /\ hopper_recording # <<>>

(***************************************************************************)
(* C7: whenever ProxyClient has handled an InboundServerData with          *)
(* last_data = true whose stream_key had a StreamContext, that             *)
(* StreamContext is absent from the map.                                   *)
(***************************************************************************)
C7_LastDataRemovesContext ==
    (HandledSolicited /\ HandledMsg.last_data /\ pc = "running") =>
        stream_contexts[HandledMsg.stream_key] = None

(***************************************************************************)
(* C8: once a last_data response for a key went to Hopper, a later         *)
(* InboundServerData for that key produces no IncipientCoresPackage and no *)
(* ReportExitServiceProvidedMessage and is logged as unsolicited, unless a *)
(* package for that key was accepted in between (closed is reset then).    *)
(***************************************************************************)
C8_NothingAfterLastData ==
    [][\A k \in StreamKeys :
          (/\ closed[k]
           /\ nhandled' = nhandled + 1
           /\ HandledIs("InboundServerData")'
           /\ HandledMsg'.stream_key = k) =>
              /\ hopper_recording' = hopper_recording
              /\ accountant_recording' = accountant_recording
              /\ emitted'.log = <<LogEntry("ERROR", "Received unsolicited response: ignoring",
                                           <<Len(HandledMsg'.data), HandledMsg'.source,
                                             HandledMsg'.sequence_number>>)>>]_vars

\* the stream was closed by a last_data response and another response for it came
C8_Witness ==
    /\ HandledIs("InboundServerData")
    /\ closed[HandledMsg.stream_key]
    /\ emitted.hopper = <<>>
    /\ \E i \in 1..Len(hopper_recording) :
           /\ hopper_recording[i].result = "Ok"
           /\ hopper_recording[i].msg.payload.content.value.stream_key = HandledMsg.stream_key
           /\ hopper_recording[i].msg.payload.content.value.sequenced_packet.last_data
    /\ \E i \in 1..Len(accountant_recording) : accountant_recording[i].result = "Ok"

(***************************************************************************)
(* C9: invalid payload.  An ExpiredCoresPackage whose payload does not     *)
(* decode as a ClientRequestPayload is logged (one ERROR) and the handler  *)
(* returns: process_package is not called, nothing goes to Hopper or       *)
(* Accountant, and the StreamContext map is unchanged.                     *)
(***************************************************************************)
C9_InvalidPayloadIsOnlyLogged ==
    (HandledIs("ExpiredCoresPackage") /\ ~ExpiredCoresPackage_payload(HandledMsg).ok) =>
        /\ emitted.pool = <<>>
        /\ emitted.hopper = <<>>
        /\ emitted.accountant = <<>>
        /\ stream_contexts = prev_stream_contexts
        /\ pc = "running"
        /\ panic_message = None
        /\ Len(emitted.log) = 1
        /\ emitted.log[1].level = "ERROR"
        /\ emitted.log[1].text = "Error interpreting payload for transmission"

\* a bound actor with an open stream took a package sealed to another node
C9_Witness ==
    /\ HandledIs("ExpiredCoresPackage")
    /\ ~ExpiredCoresPackage_payload(HandledMsg).ok
    /\ HandledMsg.payload.sealed_to = OtherNodeKey
    /\ pool # None
    /\ \E k \in StreamKeys : IsSome(stream_contexts[k])

(***************************************************************************)
(* C10: a bound ProxyClient that handles an ExpiredCoresPackage whose      *)
(* payload decodes calls process_package exactly once, with the decoded    *)
(* ClientRequestPayload as it was sealed and the package's own             *)
(* consuming_wallet; the calls are in the order of handling (each is       *)
(* appended, and no other handler calls the pool).                         *)
(***************************************************************************)
C10_PoolGetsEachRequestOnce ==
    [][/\ (nhandled' = nhandled + 1 /\ HandledRequest' /\ pool # None) =>
              process_package_parameters' =
                  Append(process_package_parameters,
                         <<HandledMsg'.payload.content.value, HandledMsg'.consuming_wallet>>)
       /\ ~(HandledRequest' /\ pool # None) =>
              process_package_parameters' = process_package_parameters]_vars

\* a request without wallet on a stream that had one, after a request for another stream
C10_Witness ==
    /\ HandledRequest
    /\ HandledMsg.consuming_wallet = None
    /\ IsSome(prev_stream_contexts[RequestOf(HandledMsg).stream_key])
    /\ IsSome(Unwrap(prev_stream_contexts[RequestOf(HandledMsg).stream_key]).consuming_wallet)
    /\ Len(process_package_parameters) = 3
    /\ process_package_parameters[3] = <<RequestOf(HandledMsg), None>>
    /\ process_package_parameters[1][1].stream_key # process_package_parameters[2][1].stream_key

(***************************************************************************)
(* C11: when the IncipientCoresPackage for an InboundServerData cannot be  *)
(* built (the context's payload_destination_key is empty: EmptyKey), the   *)
(* error is logged (one ERROR naming the cause) and the response is        *)
(* dropped: nothing is sent to Hopper, nothing to Accountant even when the *)
(* context has a consuming wallet, and the actor keeps running.            *)
(***************************************************************************)
C11_UnbuildablePackageIsDropped ==
    (HandledSolicited /\ FoundContext.payload_destination_key = EmptyPublicKey) =>
        /\ emitted.hopper = <<>>
        /\ emitted.accountant = <<>>
        /\ emitted.pool = <<>>
        /\ pc = "running"
        /\ panic_message = None
        /\ emitted.log =
               <<LogEntry("ERROR", "Could not create CORES package for response: ignoring",
                          <<Len(HandledMsg.data), HandledMsg.source,
                            HandledMsg.sequence_number,
                            <<"Could not encrypt payload", "EmptyKey">> >>)>>

\* a response with data for a paying stream whose originator key is empty
C11_Witness ==
    /\ HandledSolicited
    /\ FoundContext.payload_destination_key = EmptyPublicKey
    /\ FoundContext.consuming_wallet = Some("consuming")
    /\ HandledMsg.data # <<>>
    /\ emitted.hopper = <<>>
    /\ accountant_recording = <<>>
    /\ Len(emitted.log) = 1
    /\ pc = "running"

(***************************************************************************)
(* C12: mailbox backpressure.  When the try_send of the                    *)
(* IncipientCoresPackage to Hopper, or of the                              *)
(* ReportExitServiceProvidedMessage to Accountant, is answered with Full   *)
(* (the recipient's mailbox is over capacity), ProxyClient logs the        *)
(* failure, drops that message and stays able to handle later messages: it *)
(* does not panic.                                                         *)
(***************************************************************************)
C12_FullMailboxIsLoggedAndDropped ==
    (/\ HandledIs("InboundServerData")
     /\ \/ \E i \in 1..Len(emitted.hopper) : emitted.hopper[i].result = "Full"
        \/ \E i \in 1..Len(emitted.accountant) : emitted.accountant[i].result = "Full") =>
        /\ pc = "running"
        /\ panic_message = None
        /\ emitted.log # <<>>

(***************************************************************************)
(* C13: ProxyClient::new with an empty list of DNS servers panics, with    *)
(* the message "Proxy Client requires at least one DNS server IP address   *)
(* after the --dns_servers parameter", and no actor ever handles a         *)
(* message; with a non-empty list it yields an unbound ProxyClient (no     *)
(* hopper, no accountant, no pool) holding that list and an empty          *)
(* StreamContext map.                                                      *)
(***************************************************************************)
C13_ConstructionNeedsDnsServers ==
    /\ dns_servers = <<>> =>
           /\ pc = "panicked"
           /\ panic_message =
                  Some("Proxy Client requires at least one DNS server IP address after the --dns_servers parameter")
           /\ handled = None
           /\ nhandled = 0
    /\ (dns_servers # <<>> /\ nhandled = 0) =>
           /\ pc = "running"
           /\ panic_message = None
           /\ to_hopper = None
           /\ to_accountant = None
           /\ pool = None
           /\ \A k \in StreamKeys : stream_contexts[k] = None
           /\ resolver_wrapper_new_parameters = <<>>
           /\ pool_factory_make_parameters = <<>>

\* the constructor was called with no DNS server and panicked
C13_Witness ==
    /\ dns_servers = <<>>
    /\ pc = "panicked"
    /\ IsSome(panic_message)
    /\ nhandled = 0

(***************************************************************************)
(* C14: Bind must come first.  A ProxyClient that handles an               *)
(* ExpiredCoresPackage whose payload decodes as a ClientRequestPayload     *)
(* before it handled any BindMessage panics with "StreamHandlerPool        *)
(* unbound": no StreamContext is stored for the package, and               *)
(* process_package is not called.                                          *)
(***************************************************************************)
C14_RequestBeforeBindPanics ==
    (HandledRequest /\ pool_factory_make_parameters = <<>>) =>
        /\ pc = "panicked"
        /\ panic_message = Some("StreamHandlerPool unbound")
        /\ stream_contexts = prev_stream_contexts
        /\ stream_contexts[RequestOf(HandledMsg).stream_key] = None
        /\ emitted.pool = <<>>
        /\ process_package_parameters = <<>>

\* the first message of a constructed actor was a decodable package
C14_Witness ==
    /\ HandledRequest
    /\ nhandled = 1
    /\ pool_factory_make_parameters = <<>>
    /\ IsSome(HandledMsg.consuming_wallet)
    /\ RequestOf(HandledMsg).originator_public_key = OriginatorKey
    /\ pc = "panicked"

(***************************************************************************)
(* C15: handling a BindMessage makes exactly one resolver and exactly one  *)
(* StreamHandlerPool.  The resolver's configuration has no domain, no      *)
(* search list, and one name server per configured DNS server, in the      *)
(* configured order, each over UDP without TLS name, and nothing else; its *)
(* options are the defaults.  After Bind the hopper recipient, the         *)
(* accountant recipient and the pool are set.  No other handler makes a    *)
(* resolver or a pool.                                                     *)
(***************************************************************************)
C15_BindMakesOneResolverAndOnePool ==
    [][/\ (nhandled' = nhandled + 1 /\ HandledIs("BindMessage")') =>
              /\ Len(resolver_wrapper_new_parameters') =
                     Len(resolver_wrapper_new_parameters) + 1
              /\ SubSeq(resolver_wrapper_new_parameters', 1,
                        Len(resolver_wrapper_new_parameters)) =
                     resolver_wrapper_new_parameters
              /\ LET made == resolver_wrapper_new_parameters'[
                                 Len(resolver_wrapper_new_parameters')]
                     config == made[1]
                     opts == made[2]
                 IN  /\ config.domain = None
                     /\ config.search = <<>>
                     /\ Len(config.name_servers) = Len(dns_servers)
                     /\ \A i \in 1..Len(dns_servers) :
                            config.name_servers[i] =
                                [socket_addr |-> dns_servers[i],
                                 protocol |-> "Udp",
                                 tls_dns_name |-> None]
                     /\ opts = "ResolverOpts::default()"
              /\ Len(pool_factory_make_parameters') =
                     Len(pool_factory_make_parameters) + 1
              /\ SubSeq(pool_factory_make_parameters', 1,
                        Len(pool_factory_make_parameters)) =
                     pool_factory_make_parameters
              /\ IsSome(to_hopper')
              /\ IsSome(to_accountant')
              /\ IsSome(pool')
              /\ pc' = "running"
       /\ ~HandledIs("BindMessage")' =>
              /\ resolver_wrapper_new_parameters' = resolver_wrapper_new_parameters
              /\ pool_factory_make_parameters' = pool_factory_make_parameters]_vars

\* an actor constructed with two DNS servers handled its first BindMessage
C15_Witness ==
    /\ HandledIs("BindMessage")
    /\ Len(dns_servers) = 2
    /\ Len(resolver_wrapper_new_parameters) = 1
    /\ Len(resolver_wrapper_new_parameters[1][1].name_servers) = 2
    /\ Len(pool_factory_make_parameters) = 1
    /\ IsSome(pool)

(***************************************************************************)
(* The signed node record of the neighbor graph: NodeRecordInner is what   *)
(* is signed, NodeSignatures the two signatures over it, GossipNodeRecord  *)
(* the two together as Gossip carries them and the database stores them.   *)
(***************************************************************************)
NodeRecordInner(public_key, node_addr_opt, is_bootstrap_node, earning_wallet, consuming_wallet, neighbors, version) ==
    [public_key |-> public_key, node_addr_opt |-> node_addr_opt,
     is_bootstrap_node |-> is_bootstrap_node, earning_wallet |-> earning_wallet,
     consuming_wallet |-> consuming_wallet, neighbors |-> neighbors,
     version |-> version]

\* CryptDENull::from(&public_key): the test CryptDE that owns the key
CryptDENull_from(public_key) == [public_key |-> public_key]

\* CryptDE::sign and CryptDE::verify_signature: a signature binds the signer's
\* key to the canonical encoding of the data
CryptDE_sign(cryptde, data) ==
    [signed_by |-> cryptde.public_key, signed |-> Serialize("NodeRecordInner", data)]

CryptDE_verify_signature(public_key, data, signature) ==
    signature = [signed_by |-> public_key, signed |-> Serialize("NodeRecordInner", data)]

\* the inner record as the obscured signature covers it
obscured_inner(inner) == [inner EXCEPT !.node_addr_opt = None]

\* NodeSignatures::from(cryptde, &node_record_inner)
NodeSignatures_from(cryptde, inner) ==
    [complete |-> CryptDE_sign(cryptde, inner),
     obscured |-> CryptDE_sign(cryptde, obscured_inner(inner))]

\* verify(inner, signatures): both signatures are the owner's, over the record
verify(inner, signatures) ==
    /\ CryptDE_verify_signature(inner.public_key, inner, signatures.complete)
    /\ CryptDE_verify_signature(inner.public_key, obscured_inner(inner),
                                signatures.obscured)

GossipNodeRecord(inner, signatures) == [inner |-> inner, signatures |-> signatures]

(***************************************************************************)
(* sub_lib/neighborhood.rs: NeighborhoodConfig and RouteQueryMessage, with *)
(* the Neighborhood that answers route queries.  The ProxyClient and the   *)
(* receivable DAO take no part in it.                                      *)
(***************************************************************************)
\* the largest minimum_hop_count a query asks for
MaxHopCount == 3

ProxyClientAbsent ==
    /\ dns_servers = <<>>
    /\ to_hopper = None
    /\ to_accountant = None
    /\ pool = None
    /\ stream_contexts = EmptyStreamContexts
    /\ pc = "absent"
    /\ panic_message = None
    /\ hopper_recording = <<>>
    /\ accountant_recording = <<>>
    /\ process_package_parameters = <<>>
    /\ resolver_wrapper_new_parameters = <<>>
    /\ pool_factory_make_parameters = <<>>
    /\ handled = None
    /\ emitted = NothingEmitted
    /\ prev_stream_contexts = EmptyStreamContexts
    /\ nhandled = 0
    /\ latest_request = [k \in StreamKeys |-> None]
    /\ closed = [k \in StreamKeys |-> FALSE]

\* IpAddr::V4(Ipv4Addr::new(a, b, c, d))
IpAddrV4(a, b, c, d) == [version |-> "V4", octets |-> <<a, b, c, d>>]

SENTINEL_IP_OCTETS == <<255, 255, 255, 255>>

sentinel_ip_addr ==
    IpAddrV4(SENTINEL_IP_OCTETS[1], SENTINEL_IP_OCTETS[2],
             SENTINEL_IP_OCTETS[3], SENTINEL_IP_OCTETS[4])

NodeAddr(ip_addr, ports) == [ip_addr |-> ip_addr, ports |-> ports]

NeighborhoodConfig(neighbor_configs, is_bootstrap_node, local_ip_addr, clandestine_port_list, earning_wallet, consuming_wallet) ==
    [neighbor_configs |-> neighbor_configs,
     is_bootstrap_node |-> is_bootstrap_node,
     local_ip_addr |-> local_ip_addr,
     clandestine_port_list |-> clandestine_port_list,
     earning_wallet |-> earning_wallet,
     consuming_wallet |-> consuming_wallet]

\* a test that forgets the clandestine ports
is_decentralized_ignores_ports(config) ==
    /\ config.neighbor_configs # <<>>
    /\ config.local_ip_addr # sentinel_ip_addr

\* a test that forgets the sentinel address
is_decentralized_ignores_ip(config) ==
    /\ config.neighbor_configs # <<>>
    /\ config.clandestine_port_list # <<>>

\* NeighborhoodConfig::is_decentralized
is_decentralized(config) ==
    /\ ~(config.neighbor_configs = <<>>)
    /\ config.local_ip_addr # sentinel_ip_addr
    /\ ~(config.clandestine_port_list = <<>>)

\* the configurations a node is started with
NeighborKey1 == <<107, 101, 121>>
NeighborKey2 == <<107, 50>>

NeighborConfigLists ==
    {<<>>,
     <<<<NeighborKey1, NodeAddr(IpAddrV4(2, 3, 4, 5), <<2345>>)>>>>,
     <<<<NeighborKey1, NodeAddr(IpAddrV4(2, 3, 4, 5), <<2345>>)>>,
       <<NeighborKey2, NodeAddr(IpAddrV4(3, 4, 5, 6), <<3456, 3457>>)>>>>}

LocalIpAddrs == {sentinel_ip_addr, IpAddrV4(1, 2, 3, 4), IpAddrV4(255, 255, 255, 254)}

ClandestinePortLists == {<<>>, <<1234>>, <<1234, 2345>>}

NeighborhoodConfigs ==
    {NeighborhoodConfig(neighbors, bootstrap, ip, ports, "router", Some("consumer")) :
        neighbors \in NeighborConfigLists, bootstrap \in BOOLEAN, ip \in LocalIpAddrs,
        ports \in ClandestinePortLists}

RouteQueryMessage(target_type, target_key_opt, target_component, minimum_hop_count, return_component_opt) ==
    [target_type |-> target_type,
     target_key_opt |-> target_key_opt,
     target_component |-> target_component,
     minimum_hop_count |-> minimum_hop_count,
     return_component_opt |-> return_component_opt]

\* a request that asks for a one-way route
data_indefinite_route_request_one_way(minimum_hop_count) ==
    RouteQueryMessage("Standard", None, "ProxyClient", minimum_hop_count, None)

\* RouteQueryMessage::data_indefinite_route_request
data_indefinite_route_request(minimum_hop_count) ==
    RouteQueryMessage("Standard", None, "ProxyClient", minimum_hop_count,
                      Some("ProxyServer"))

\* the queries the Neighborhood is sent
RouteQueryMessages ==
    {RouteQueryMessage(type, key, component, n, return) :
        type \in {"Standard", "Bootstrap"},
        key \in {None, Some(NeighborKey2)},
        component \in {"ProxyClient", "Hopper"},
        n \in 0..MaxHopCount,
        return \in {None, Some("ProxyServer")}}

\* ExpectedService
Routing(public_key, wallet) == [service |-> "Routing", public_key |-> public_key, wallet |-> wallet]
Exit(public_key, wallet) == [service |-> "Exit", public_key |-> public_key, wallet |-> wallet]
Nothing == [service |-> "Nothing"]

\* ExpectedServices (the return route id of RoundTrip is left out)
OneWay(over) == [kind |-> "OneWay", over |-> over]
RoundTrip(over, back) == [kind |-> "RoundTrip", over |-> over, back |-> back]

\* Route: the nodes of the route over, origin first and exit last, and of the
\* route back, exit first and origin last
Route(over, back) == [over |-> over, back |-> back]

RouteQueryResponse(route, expected_services) ==
    [route |-> route, expected_services |-> expected_services]

(***************************************************************************)
(* NeighborhoodDatabase: PublicKey -> record, with the record of this node *)
(* under LocalKey.  A node starts with its own record alone; the keys its  *)
(* configuration names are neighbors of that record, edges to nodes it has *)
(* yet to learn.                                                           *)
(***************************************************************************)
\* number of Gossips one behaviour handles
MaxGossips == 3

\* a bootstrap node that Gossip tells of
BootstrapKey == <<66, 66>>

DatabaseKeys == {LocalKey, NeighborKey1, NeighborKey2, BootstrapKey}

\* a record as its owner signs it
signed_record(inner) ==
    GossipNodeRecord(inner, NodeSignatures_from(CryptDENull_from(inner.public_key), inner))

this_node_inner(config) ==
    NodeRecordInner(
        LocalKey,
        Some(NodeAddr(config.local_ip_addr, config.clandestine_port_list)),
        config.is_bootstrap_node, config.earning_wallet, config.consuming_wallet,
        [i \in 1..Len(config.neighbor_configs) |-> config.neighbor_configs[i][1]],
        0)

NeighborhoodDatabase_new(config) ==
    [k \in DatabaseKeys |->
        IF k = LocalKey THEN Some(signed_record(this_node_inner(config))) ELSE None]

\* Gossip acceptance of a record that takes over on an equal version
handle_gossip_record_accepts_equal(db, gnr) ==
    LET key == gnr.inner.public_key
    IN  IF ~verify(gnr.inner, gnr.signatures)
        THEN db
        ELSE IF db[key] = None
        THEN [db EXCEPT ![key] = Some(gnr)]
        ELSE IF gnr.inner.version >= Unwrap(db[key]).inner.version
        THEN [db EXCEPT ![key] = Some(gnr)]
        ELSE db

\* Gossip acceptance, steps 1 to 3, of one incoming GossipNodeRecord
handle_gossip_record(db, gnr) ==
    LET key == gnr.inner.public_key
    IN  IF ~verify(gnr.inner, gnr.signatures)
        THEN db
        ELSE IF db[key] = None
        THEN [db EXCEPT ![key] = Some(gnr)]
        ELSE IF gnr.inner.version > Unwrap(db[key]).inner.version
        THEN [db EXCEPT ![key] = Some(gnr)]
        ELSE db

RECURSIVE handle_gossip_records(_, _, _)
handle_gossip_records(db, gossip, n) ==
    IF n > Len(gossip)
    THEN db
    ELSE handle_gossip_records(handle_gossip_record(db, gossip[n]), gossip, n + 1)

\* Gossip acceptance, step 4: this node's record with its version bumped, signed
\* again (every neighbor it names counts as live)
bump_this_node(db) ==
    LET inner == Unwrap(db[LocalKey]).inner
    IN  [db EXCEPT ![LocalKey] =
            Some(signed_record([inner EXCEPT !.version = @ + 1]))]

\* the Neighborhood's handling of a Gossip
handle_Gossip(db, gossip) ==
    LET updated == handle_gossip_records(db, gossip, 1)
    IN  IF updated = db THEN db ELSE bump_this_node(updated)

\* the records Gossip brings
GossipRecord(key, is_bootstrap, neighbors, version) ==
    signed_record(NodeRecordInner(key, Some(NodeAddr(IpAddrV4(2, 3, 4, 5), <<2345>>)),
                                  is_bootstrap, "earning", None, neighbors, version))

\* a record whose signatures are another node's
ForgedRecord ==
    LET inner == NodeRecordInner(NeighborKey2, None, FALSE, "earning", None, <<>>, 3)
    IN  GossipNodeRecord(inner, NodeSignatures_from(CryptDENull_from(NeighborKey1), inner))

GossipRecords ==
    { GossipRecord(NeighborKey1, FALSE, <<NeighborKey2, LocalKey>>, 1),
      GossipRecord(NeighborKey1, FALSE, <<LocalKey>>, 1),
      GossipRecord(NeighborKey1, FALSE, <<BootstrapKey, LocalKey>>, 2),
      GossipRecord(NeighborKey2, FALSE, <<NeighborKey1, LocalKey>>, 1),
      GossipRecord(BootstrapKey, TRUE, <<NeighborKey2, LocalKey>>, 1),
      GossipRecord(LocalKey, FALSE, <<NeighborKey1, NeighborKey2, BootstrapKey>>, 2),
      ForgedRecord }

Gossips ==
    {<<gnr>> : gnr \in GossipRecords}
        \cup {<<GossipRecord(NeighborKey1, FALSE, <<LocalKey>>, 1),
                GossipRecord(NeighborKey1, FALSE, <<BootstrapKey, LocalKey>>, 2)>>,
              <<GossipRecord(NeighborKey1, FALSE, <<BootstrapKey, LocalKey>>, 2),
                GossipRecord(NeighborKey1, FALSE, <<LocalKey>>, 1)>>,
              <<GossipRecord(BootstrapKey, TRUE, <<NeighborKey2, LocalKey>>, 1),
                GossipRecord(LocalKey, FALSE, <<NeighborKey1, NeighborKey2, BootstrapKey>>, 2)>>}

(***************************************************************************)
(* Route query: the search of the database from this node outward.         *)
(***************************************************************************)
KnownKeys(db) == {k \in DatabaseKeys : IsSome(db[k])}

inner_of(db, key) == Unwrap(db[key]).inner

\* the nodes a path can go on to: known, not yet on the path, and named as a
\* neighbor by the last node of the path
next_hops(db, p) ==
    {k \in KnownKeys(db) :
        /\ \A i \in 1..Len(p) : p[i] # k
        /\ \E n \in 1..Len(inner_of(db, p[Len(p)]).neighbors) :
               inner_of(db, p[Len(p)]).neighbors[n] = k}

\* the simple paths of the database that begin with p
RECURSIVE paths_from(_, _)
paths_from(db, p) ==
    {p} \cup UNION {paths_from(db, Append(p, k)) : k \in next_hops(db, p)}

\* a search that lets a bootstrap node relay
intermediate_hops_with_bootstrap(db, p) ==
    \A i \in 2..(Len(p) - 1) : p[i] # LocalKey

\* intermediate hops are neither bootstrap nodes nor the originator
intermediate_hops_allowed(db, p) ==
    \A i \in 2..(Len(p) - 1) :
        /\ ~inner_of(db, p[i]).is_bootstrap_node
        /\ p[i] # LocalKey

\* the exit a query asks for
is_target(db, msg, key) ==
    IF IsSome(msg.target_key_opt)
    THEN key = Unwrap(msg.target_key_opt)
    ELSE /\ ~inner_of(db, key).is_bootstrap_node
         /\ IsSome(inner_of(db, key).node_addr_opt)

routes_over(db, msg) ==
    {p \in paths_from(db, <<LocalKey>>) :
        /\ Len(p) - 1 >= msg.minimum_hop_count
        /\ intermediate_hops_allowed(db, p)
        /\ is_target(db, msg, p[Len(p)])}

routes_back(db, msg, exit_key) ==
    {p \in paths_from(db, <<exit_key>>) :
        /\ p[Len(p)] = LocalKey
        /\ Len(p) - 1 >= msg.minimum_hop_count
        /\ intermediate_hops_allowed(db, p)}

shortest(paths) == CHOOSE p \in paths : \A q \in paths : Len(p) <= Len(q)

\* return paths that share no relay with the path over come first
preferred_back(over, paths) ==
    LET disjoint == {p \in paths :
                        \A i \in 2..(Len(p) - 1), j \in 2..(Len(over) - 1) : p[i] # over[j]}
    IN  IF disjoint # {} THEN shortest(disjoint) ELSE shortest(paths)

\* expected services that take the exit for one more relay
expected_services_all_routing(db, path, exit_key) ==
    [i \in 1..Len(path) |->
        IF path[i] = LocalKey THEN Nothing
        ELSE Routing(path[i], inner_of(db, path[i]).earning_wallet)]

\* expected_services of one direction: Nothing for the originator's own slot,
\* Exit for the exit, Routing for every node between
expected_services_of(db, path, exit_key) ==
    [i \in 1..Len(path) |->
        LET wallet == inner_of(db, path[i]).earning_wallet
        IN  IF path[i] = LocalKey THEN Nothing
            ELSE IF path[i] = exit_key THEN Exit(path[i], wallet)
            ELSE Routing(path[i], wallet)]

make_route_response(db, msg, over, back) ==
    LET exit_key == over[Len(over)]
    IN  RouteQueryResponse(
            Route(over, back),
            IF IsSome(msg.return_component_opt)
            THEN RoundTrip(expected_services_of(db, over, exit_key),
                           expected_services_of(db, back, exit_key))
            ELSE OneWay(expected_services_of(db, over, exit_key)))

\* zero-hop mode: the loopback route of a node that serves its own traffic
zero_hop_route_response(db, msg) ==
    make_route_response(db, msg, <<LocalKey>>, <<LocalKey>>)

\* the search of a decentralized node
route_through_database(db, msg) ==
    LET overs == routes_over(db, msg)
    IN  IF overs = {}
        THEN None
        ELSE LET over == shortest(overs)
                 backs == routes_back(db, msg, over[Len(over)])
             IN  IF msg.return_component_opt = None
                 THEN Some(make_route_response(db, msg, over, <<>>))
                 ELSE IF backs = {}
                 THEN None
                 ELSE Some(make_route_response(db, msg, over,
                                               preferred_back(over, backs)))

\* Handler<RouteQueryMessage> of the Neighborhood
handle_RouteQueryMessage(config, db, msg) ==
    IF is_decentralized(config)
    THEN route_through_database(db, msg)
    ELSE Some(zero_hop_route_response(db, msg))

InitNeighborhood ==
    /\ ProxyClientAbsent
    /\ ReceivableDaoAbsent
    /\ MultinodeAbsent
    /\ neighborhood_config \in NeighborhoodConfigs
    /\ is_decentralized_result = None
    /\ route_request = None
    /\ route_query = None
    /\ route_response = None
    /\ database = NeighborhoodDatabase_new(neighborhood_config)
    /\ gossips_handled = 0

CallIsDecentralized ==
    /\ is_decentralized_result' = Some(is_decentralized(neighborhood_config))
    /\ UNCHANGED <<neighborhood_config, route_request, route_query, route_response,
                   database, gossips_handled>>
    /\ UNCHANGED <<proxy_client_vars, receivable_dao_vars, multinode_vars>>

CallDataIndefiniteRouteRequest ==
    /\ \E minimum_hop_count \in 0..MaxHopCount :
           route_request' =
               Some([minimum_hop_count |-> minimum_hop_count,
                     result |-> data_indefinite_route_request(minimum_hop_count)])
    /\ UNCHANGED <<neighborhood_config, is_decentralized_result, route_query,
                   route_response, database, gossips_handled>>
    /\ UNCHANGED <<proxy_client_vars, receivable_dao_vars, multinode_vars>>

HandleRouteQueryMessage ==
    /\ \E msg \in RouteQueryMessages :
           /\ route_query' = Some(msg)
           /\ route_response' =
                  Some(handle_RouteQueryMessage(neighborhood_config, database, msg))
    /\ UNCHANGED <<neighborhood_config, is_decentralized_result, route_request,
                   database, gossips_handled>>
    /\ UNCHANGED <<proxy_client_vars, receivable_dao_vars, multinode_vars>>

NextNeighborhood ==
    \/ CallIsDecentralized
    \/ CallDataIndefiniteRouteRequest
    \/ HandleRouteQueryMessage

SpecNeighborhood == InitNeighborhood /\ [][NextNeighborhood]_vars

(***************************************************************************)
(* SpecGossip: a decentralized standard node that handles Gossip and       *)
(* answers route queries from what its database has learned.               *)
(***************************************************************************)
DecentralizedConfig ==
    NeighborhoodConfig(
        <<<<NeighborKey1, NodeAddr(IpAddrV4(2, 3, 4, 5), <<2345>>)>>,
          <<NeighborKey2, NodeAddr(IpAddrV4(3, 4, 5, 6), <<3456, 3457>>)>>>>,
        FALSE, IpAddrV4(1, 2, 3, 4), <<1234>>, "router", Some("consumer"))

InitGossip ==
    /\ ProxyClientAbsent
    /\ ReceivableDaoAbsent
    /\ MultinodeAbsent
    /\ neighborhood_config = DecentralizedConfig
    /\ is_decentralized_result = None
    /\ route_request = None
    /\ route_query = None
    /\ route_response = None
    /\ database = NeighborhoodDatabase_new(neighborhood_config)
    /\ gossips_handled = 0

HandleGossip ==
    /\ gossips_handled < MaxGossips
    /\ \E gossip \in Gossips : database' = handle_Gossip(database, gossip)
    /\ gossips_handled' = gossips_handled + 1
    /\ UNCHANGED <<neighborhood_config, is_decentralized_result, route_request,
                   route_query, route_response>>
    /\ UNCHANGED <<proxy_client_vars, receivable_dao_vars, multinode_vars>>

NextGossip ==
    \/ HandleGossip
    \/ HandleRouteQueryMessage

SpecGossip == InitGossip /\ [][NextGossip]_vars

(***************************************************************************)
(* C16: NeighborhoodConfig.is_decentralized returns true if and only if    *)
(* neighbor_configs is not empty and local_ip_addr is not the sentinel     *)
(* 255.255.255.255 and clandestine_port_list is not empty; so any one of   *)
(* the three failing, alone, makes it false.  No other field matters.      *)
(***************************************************************************)
C16_DecentralizedIffAllThree ==
    IsSome(is_decentralized_result) =>
        (Unwrap(is_decentralized_result) <=>
            (/\ Len(neighborhood_config.neighbor_configs) > 0
             /\ neighborhood_config.local_ip_addr.octets # <<255, 255, 255, 255>>
             /\ Len(neighborhood_config.clandestine_port_list) > 0))

\* neighbors and a real address, but no clandestine port: not decentralized
C16_Witness ==
    /\ is_decentralized_result = Some(FALSE)
    /\ Len(neighborhood_config.neighbor_configs) = 2
    /\ neighborhood_config.local_ip_addr.octets = <<1, 2, 3, 4>>
    /\ neighborhood_config.clandestine_port_list = <<>>

(***************************************************************************)
(* C17: zero-hop mode.  Whenever the NeighborhoodConfig is not             *)
(* decentralized (no neighbor_configs, or the sentinel address, or no      *)
(* clandestine port), every route query is answered with Some route, never *)
(* None, whatever minimum_hop_count and target it asks for, and the route  *)
(* is the loopback route: its origin and its exit are this node.           *)
(***************************************************************************)
C17_ZeroHopAlwaysRoutes ==
    (/\ IsSome(route_response)
     /\ \/ neighborhood_config.neighbor_configs = <<>>
        \/ neighborhood_config.local_ip_addr.octets = <<255, 255, 255, 255>>
        \/ neighborhood_config.clandestine_port_list = <<>>) =>
        LET answer == Unwrap(route_response)
        IN  /\ IsSome(answer)
            /\ LET over == Unwrap(answer).route.over
               IN  /\ over # <<>>
                   /\ over[1] = LocalKey
                   /\ over[Len(over)] = LocalKey
                   /\ \A i \in 1..Len(over) : over[i] = LocalKey

\* a node with two neighbors and a port, but the sentinel address, is asked
\* for more hops than it knows nodes, to a target it is not: it answers Some
C17_Witness ==
    /\ IsSome(route_response)
    /\ Len(neighborhood_config.neighbor_configs) = 2
    /\ neighborhood_config.clandestine_port_list # <<>>
    /\ neighborhood_config.local_ip_addr = sentinel_ip_addr
    /\ Unwrap(route_query).minimum_hop_count = MaxHopCount
    /\ IsSome(Unwrap(route_query).target_key_opt)
    /\ IsSome(Unwrap(route_response))

(***************************************************************************)
(* C18: ClientResponsePayload::make_terminating_payload(k) is, for every   *)
(* stream key k, the payload with stream_key k, no data, sequence_number 0 *)
(* and last_data true; and a response that carries it for a known stream   *)
(* terminates the stream: once it is handled the StreamContext of k is     *)
(* gone.                                                                   *)
(***************************************************************************)
C18_TerminatingPayloadEndsStream ==
    /\ \A k \in StreamKeys :
           make_terminating_payload(k) =
               [stream_key |-> k,
                sequenced_packet |->
                    [data |-> <<>>, sequence_number |-> 0, last_data |-> TRUE]]
    /\ (/\ HandledSolicited
        /\ response_payload(HandledMsg) = make_terminating_payload(HandledMsg.stream_key)
        /\ pc = "running") =>
           stream_contexts[HandledMsg.stream_key] = None

(***************************************************************************)
(* C19: RouteQueryMessage::data_indefinite_route_request(n) is, for every  *)
(* n, the query with target_type Standard, no target key, target_component *)
(* ProxyClient, minimum_hop_count exactly n and return_component_opt       *)
(* Some(ProxyServer): a round trip to an exit that is not named.           *)
(***************************************************************************)
C19_DataIndefiniteRouteRequest ==
    IsSome(route_request) =>
        LET n == Unwrap(route_request).minimum_hop_count
            result == Unwrap(route_request).result
        IN  /\ result.target_type = "Standard"
            /\ result.target_key_opt = None
            /\ result.target_component = "ProxyClient"
            /\ result.minimum_hop_count = n
            /\ result.return_component_opt = Some("ProxyServer")
            /\ DOMAIN result = {"target_type", "target_key_opt", "target_component",
                                "minimum_hop_count", "return_component_opt"}

\* the request for two hops, as in the unit test
C19_Witness ==
    /\ IsSome(route_request)
    /\ Unwrap(route_request).minimum_hop_count = 2
    /\ Unwrap(route_request).result.minimum_hop_count = 2
    /\ IsSome(Unwrap(route_request).result.return_component_opt)

(***************************************************************************)
(* accountant/receivable_dao.rs: ReceivableDaoReal over the table          *)
(* receivable(wallet_address, balance, last_received_timestamp).           *)
(***************************************************************************)
\* the integers of the model have IntBits bits where the program's have 64
IntBits == 3
\* number of calls of the DAO in one behaviour
MaxDaoCalls == 3
\* the clock runs from 0 to MaxClock, in half seconds
MaxClock == 2

U64_MAX == 2^IntBits - 1
I64_MAX == 2^(IntBits - 1) - 1
I64_MIN == -(2^(IntBits - 1))

\* a cast that keeps the value
as_i64_unchanged(amount) == amount

\* amount as i64: the same bits, read as a signed integer
as_i64(amount) == IF amount > I64_MAX THEN amount - 2^IntBits ELSE amount

\* dao_utils::to_time_t and from_time_t: whole seconds since the epoch
to_time_t(system_time) == system_time \div 2
from_time_t(time_t) == 2 * time_t

\* what a column of a row holds
SqlInteger(n) == [type |-> "INTEGER", value |-> n]
SqlReal(n) == [type |-> "REAL", value |-> n]
SqlNull == [type |-> "NULL"]

\* SQLite's balance + ?: an integer sum that does not fit 64 bits is a REAL
sqlite_add(column, n) ==
    IF column.type = "NULL" THEN SqlNull
    ELSE IF column.type = "REAL" THEN SqlReal(column.value + n)
    ELSE IF column.value + n \in I64_MIN..I64_MAX THEN SqlInteger(column.value + n)
    ELSE SqlReal(column.value + n)

\* row.get(i) as Option<i64>
row_get(column) ==
    IF column.type = "NULL" THEN Ok(None)
    ELSE IF column.type = "INTEGER" THEN Ok(Some(column.value))
    ELSE Err("InvalidColumnType")

ReceivableAccount(wallet_address, balance, last_received_timestamp) ==
    [wallet_address |-> wallet_address,
     balance |-> balance,
     last_received_timestamp |-> last_received_timestamp]

Wallets == {"booga", "agoob"}

\* amounts at the ends of u64 and on both sides of i64::MAX
Amounts == {0, 1, I64_MAX, I64_MAX + 1, U64_MAX}

\* what a statement answers: it runs, or SQLite reports an error
ExecuteResults == {"Ok", "Err"}

\* ReceivableDaoReal::try_update
try_update(table, wallet_address, amount, answer) ==
    IF answer # "Ok" THEN [result |-> Err("update failed"), table |-> table]
    ELSE IF table[wallet_address] = None
    THEN [result |-> Ok(FALSE), table |-> table]
    ELSE LET row == Unwrap(table[wallet_address])
         IN  [result |-> Ok(TRUE),
              table |-> [table EXCEPT ![wallet_address] =
                            Some([row EXCEPT !.balance =
                                     sqlite_add(row.balance, as_i64(amount))])]]

\* ReceivableDaoReal::try_insert
try_insert(table, wallet_address, amount, now, answer) ==
    IF answer # "Ok" \/ IsSome(table[wallet_address])
    THEN [result |-> Err("insert failed"), table |-> table]
    ELSE [result |-> Ok(<<>>),
          table |-> [table EXCEPT ![wallet_address] =
                        Some([balance |-> SqlInteger(as_i64(amount)),
                              last_received_timestamp |-> SqlInteger(to_time_t(now))])]]

\* ReceivableDaoReal::more_money_receivable: the table after the call and the
\* panic that ended it (None when it returned)
more_money_receivable(table, wallet_address, amount, now, update_answer, insert_answer) ==
    LET updated == try_update(table, wallet_address, amount, update_answer)
    IN  IF ~updated.result.ok
        THEN [table |-> table,
              panic |-> Some(<<"Database is corrupt", updated.result.err>>)]
        ELSE IF updated.result.val
        THEN [table |-> updated.table, panic |-> None]
        ELSE LET inserted == try_insert(table, wallet_address, amount, now, insert_answer)
             IN  IF inserted.result.ok
                 THEN [table |-> inserted.table, panic |-> None]
                 ELSE [table |-> table,
                       panic |-> Some(<<"Database is corrupt", inserted.result.err>>)]

\* a status that reports an empty account for a wallet without a row
account_status_or_empty(table, wallet_address, query_answer) ==
    IF query_answer # "Ok" THEN Err(<<"Database is corrupt", "query failed">>)
    ELSE IF table[wallet_address] = None
    THEN Ok(Some(ReceivableAccount(wallet_address, 0, from_time_t(0))))
    ELSE LET row == Unwrap(table[wallet_address])
             balance == row_get(row.balance)
             timestamp == row_get(row.last_received_timestamp)
         IN  IF ~balance.ok THEN Err(<<balance.err>>)
             ELSE IF ~timestamp.ok THEN Err(<<timestamp.err>>)
             ELSE IF IsSome(balance.val) /\ IsSome(timestamp.val)
             THEN Ok(Some(ReceivableAccount(wallet_address, Unwrap(balance.val),
                                            from_time_t(Unwrap(timestamp.val)))))
             ELSE Err(<<"Database is corrupt", <<balance.val, timestamp.val>> >>)

\* ReceivableDaoReal::account_status: Ok of the Option it returns, or Err of
\* what it panics with
account_status(table, wallet_address, query_answer) ==
    IF query_answer # "Ok" THEN Err(<<"Database is corrupt", "query failed">>)
    ELSE IF table[wallet_address] = None THEN Ok(None)
    ELSE LET row == Unwrap(table[wallet_address])
             balance == row_get(row.balance)
             timestamp == row_get(row.last_received_timestamp)
         IN  IF ~balance.ok THEN Err(<<balance.err>>)
             ELSE IF ~timestamp.ok THEN Err(<<timestamp.err>>)
             ELSE IF IsSome(balance.val) /\ IsSome(timestamp.val)
             THEN Ok(Some(ReceivableAccount(wallet_address, Unwrap(balance.val),
                                            from_time_t(Unwrap(timestamp.val)))))
             ELSE Err(<<"Database is corrupt", <<balance.val, timestamp.val>> >>)

InitReceivableDao ==
    /\ ProxyClientAbsent
    /\ NeighborhoodAbsent
    /\ MultinodeAbsent
    /\ receivable = [w \in Wallets |-> None]
    /\ dao_clock = 0
    /\ dao_called = [w \in Wallets |-> None]
    /\ dao_ncalls = 0
    /\ account_status_result = None
    /\ dao_last_call = None
    /\ dao_panic = None

CanCallDao == dao_panic = None /\ dao_ncalls < MaxDaoCalls

\* what was asked of the DAO for a wallet: the amounts add up as numbers
Called(before, amount, now) ==
    IF before = None
    THEN Some([sum |-> amount, first_at |-> now, times |-> 1])
    ELSE Some([sum |-> Unwrap(before).sum + amount,
               first_at |-> Unwrap(before).first_at,
               times |-> Unwrap(before).times + 1])

CallMoreMoneyReceivable ==
    /\ CanCallDao
    /\ \E wallet_address \in Wallets, amount \in Amounts,
          update_answer \in ExecuteResults, insert_answer \in ExecuteResults :
           LET done == more_money_receivable(receivable, wallet_address, amount,
                                             dao_clock, update_answer, insert_answer)
           IN  /\ receivable' = done.table
               /\ dao_panic' = done.panic
               /\ dao_called' = IF done.panic = None
                                THEN [dao_called EXCEPT ![wallet_address] =
                                         Called(dao_called[wallet_address], amount,
                                                dao_clock)]
                                ELSE dao_called
               /\ dao_last_call' =
                      Some([op |-> "more_money_receivable",
                            wallet_address |-> wallet_address,
                            failed |-> IF update_answer = "Err" THEN Some("update")
                                       ELSE IF /\ receivable[wallet_address] = None
                                               /\ insert_answer = "Err"
                                       THEN Some("insert")
                                       ELSE None])
    /\ dao_ncalls' = dao_ncalls + 1
    /\ UNCHANGED <<dao_clock, account_status_result>>
    /\ UNCHANGED <<proxy_client_vars, neighborhood_vars, multinode_vars>>

CallAccountStatus ==
    /\ CanCallDao
    /\ \E wallet_address \in Wallets, query_answer \in ExecuteResults :
           LET status == account_status(receivable, wallet_address, query_answer)
           IN  /\ account_status_result' =
                      IF status.ok
                      THEN Some([wallet_address |-> wallet_address, status |-> status.val])
                      ELSE account_status_result
               /\ dao_panic' = IF status.ok THEN None ELSE Some(status.err)
               /\ dao_last_call' =
                      Some([op |-> "account_status",
                            wallet_address |-> wallet_address,
                            failed |-> IF query_answer = "Err" THEN Some("query")
                                       ELSE None])
    /\ dao_ncalls' = dao_ncalls + 1
    /\ UNCHANGED <<receivable, dao_clock, dao_called>>
    /\ UNCHANGED <<proxy_client_vars, neighborhood_vars, multinode_vars>>

\* SystemTime::now() moves on between calls
TimePasses ==
    /\ dao_clock < MaxClock
    /\ dao_clock' = dao_clock + 1
    /\ UNCHANGED <<receivable, dao_called, dao_ncalls, account_status_result,
                   dao_last_call, dao_panic>>
    /\ UNCHANGED <<proxy_client_vars, neighborhood_vars, multinode_vars>>

\* no column of the table lost its value
TableIntact ==
    \A w \in Wallets :
        IsSome(receivable[w]) =>
            /\ Unwrap(receivable[w]).balance # SqlNull
            /\ Unwrap(receivable[w]).last_received_timestamp # SqlNull

\* a column of a row loses its value behind the DAO's back: the database file
\* is written by something else, or damaged (once in a behaviour)
DatabaseCorrupted ==
    /\ CanCallDao
    /\ TableIntact
    /\ \E wallet_address \in Wallets :
           /\ IsSome(receivable[wallet_address])
           /\ \E column \in {"balance", "last_received_timestamp"} :
                  receivable' = [receivable EXCEPT ![wallet_address] =
                                    Some([Unwrap(receivable[wallet_address])
                                             EXCEPT ![column] = SqlNull])]
    /\ UNCHANGED <<dao_clock, dao_called, dao_ncalls, account_status_result,
                   dao_last_call, dao_panic>>
    /\ UNCHANGED <<proxy_client_vars, neighborhood_vars, multinode_vars>>

NextReceivableDao ==
    \/ CallMoreMoneyReceivable
    \/ CallAccountStatus
    \/ TimePasses
    \/ DatabaseCorrupted

SpecReceivableDao == InitReceivableDao /\ [][NextReceivableDao]_vars

(***************************************************************************)
(* C20: after any sequence of more_money_receivable(wallet, a_i) calls on  *)
(* an empty receivable store, account_status(wallet) returns, for every    *)
(* wallet that was named in a call, an account whose balance is the sum of *)
(* the a_i of that wallet and whose last_received_timestamp is the time    *)
(* (in whole seconds) of the first of these calls, later calls leaving it  *)
(* as it is; amounts given for one wallet do not show in another's.  (The  *)
(* store is written by the DAO only: no column has lost its value.)        *)
(***************************************************************************)
C20_BalanceIsSumOfAmounts ==
    \A w \in Wallets :
        (dao_panic = None /\ TableIntact /\ IsSome(dao_called[w])) =>
            LET status == account_status(receivable, w, "Ok")
                called == Unwrap(dao_called[w])
            IN  /\ status.ok
                /\ IsSome(status.val)
                /\ Unwrap(status.val).wallet_address = w
                /\ Unwrap(status.val).balance = called.sum
                /\ to_time_t(Unwrap(status.val).last_received_timestamp) =
                       to_time_t(called.first_at)

(***************************************************************************)
(* C21: account_status(wallet) returns None if and only if                 *)
(* more_money_receivable was never called for that wallet, and it is       *)
(* read-only: a call of it leaves every row of the table as it was, and    *)
(* makes none.                                                             *)
(***************************************************************************)
C21_StatusIsNoneIffNeverCalled ==
    [][(dao_ncalls' = dao_ncalls + 1 /\ dao_called' = dao_called) =>
          /\ receivable' = receivable
          /\ dao_panic' = None =>
                 /\ IsSome(account_status_result')
                 /\ LET returned == Unwrap(account_status_result')
                    IN  (returned.status = None) <=>
                            (dao_called[returned.wallet_address] = None)]_vars

\* a wallet nobody owes for was asked about after another wallet got an account
C21_Witness ==
    /\ IsSome(account_status_result)
    /\ Unwrap(account_status_result).wallet_address = "booga"
    /\ Unwrap(account_status_result).status = None
    /\ dao_called["booga"] = None
    /\ IsSome(dao_called["agoob"])
    /\ IsSome(receivable["agoob"])
    /\ receivable["booga"] = None
    /\ dao_panic = None

(***************************************************************************)
(* C22: a corrupt accounting database is fatal.  When the update or the    *)
(* insert of more_money_receivable fails, and when account_status's query  *)
(* fails or finds a row whose balance or timestamp is missing (NULL), the  *)
(* call panics with "Database is corrupt": it returns no value and changes *)
(* nothing.  Violated: a row whose timestamp is missing and whose balance  *)
(* overflowed into a REAL makes the read of the balance column panic first,*)
(* with the column-type error and not with "Database is corrupt".          *)
(***************************************************************************)
C22_CorruptDatabaseIsFatal ==
    [][dao_ncalls' = dao_ncalls + 1 =>
          LET call == Unwrap(dao_last_call')
              row == receivable[call.wallet_address]
              fatal == \/ call.op = "more_money_receivable" /\ IsSome(call.failed)
                       \/ call.op = "account_status" /\ call.failed = Some("query")
                       \/ /\ call.op = "account_status"
                          /\ IsSome(row)
                          /\ \/ Unwrap(row).balance = SqlNull
                             \/ Unwrap(row).last_received_timestamp = SqlNull
          IN  fatal =>
                  /\ IsSome(dao_panic')
                  /\ Unwrap(dao_panic')[1] = "Database is corrupt"
                  /\ receivable' = receivable
                  /\ account_status_result' = account_status_result
                  /\ dao_called' = dao_called]_vars

(***************************************************************************)
(* GossipBuilder (multinode_integration_tests/src/gossip_builder.rs).      *)
(* A test builds a Gossip by chaining add_node, add_gnr, add_fictional_node*)
(* and add_connection on a GossipBuilder and ends with build().            *)
(***************************************************************************)
\* number of records and of connections one builder is given
MaxNodes == 2
MaxConnections == 2

GossipBuilderNodeInfo(node_record_inner, cryptde) ==
    [node_record_inner |-> node_record_inner, cryptde |-> cryptde]

\* GossipBuilder::new
GossipBuilder_new(consuming_wallet) ==
    [consuming_wallet |-> consuming_wallet, node_info |-> <<>>,
     connection_pairs |-> <<>>]

\* GossipBuilder::add_node
add_node(self, node, is_bootstrap, include_ip) ==
    [self EXCEPT !.node_info = Append(@,
        GossipBuilderNodeInfo(
            NodeRecordInner(node.public_key,
                            IF include_ip THEN Some(node.node_addr) ELSE None,
                            is_bootstrap, node.earning_wallet,
                            node.consuming_wallet, <<>>, 0),
            CryptDENull_from(node.public_key)))]

\* an add_gnr that takes the record with its neighbors
add_gnr_keeps_neighbors(self, gnr) ==
    [self EXCEPT !.node_info = Append(@,
        GossipBuilderNodeInfo(gnr.inner, CryptDENull_from(gnr.inner.public_key)))]

\* GossipBuilder::add_gnr
add_gnr(self, gnr) ==
    [self EXCEPT !.node_info = Append(@,
        GossipBuilderNodeInfo(
            NodeRecordInner(gnr.inner.public_key, gnr.inner.node_addr_opt,
                            gnr.inner.is_bootstrap_node, gnr.inner.earning_wallet,
                            gnr.inner.consuming_wallet, <<>>, gnr.inner.version),
            CryptDENull_from(gnr.inner.public_key)))]

\* GossipBuilder::add_fictional_node
add_fictional_node(self, node_record) ==
    [self EXCEPT !.node_info = Append(@,
        GossipBuilderNodeInfo(node_record, CryptDENull_from(node_record.public_key)))]

\* GossipBuilder::add_connection
add_connection(self, from_key, to_key) ==
    [self EXCEPT !.connection_pairs = Append(@, <<from_key, to_key>>)]

\* a search that takes the last record with the key
find_last_record(node_records, from_key) ==
    LET found == {i \in 1..Len(node_records) : node_records[i].inner.public_key = from_key}
    IN  IF found = {} THEN 0 ELSE CHOOSE i \in found : \A j \in found : i >= j

\* node_records.iter_mut().find(|n| n.inner.public_key == from_key): the index
\* of the first record with that key, 0 when there is none
find_record(node_records, from_key) ==
    LET found == {i \in 1..Len(node_records) : node_records[i].inner.public_key = from_key}
    IN  IF found = {} THEN 0 ELSE CHOOSE i \in found : \A j \in found : i <= j

\* connection_pairs.iter().for_each(...) of build, from pair number n on
RECURSIVE push_neighbors(_, _, _)
push_neighbors(node_records, connection_pairs, n) ==
    IF n > Len(connection_pairs)
    THEN Ok(node_records)
    ELSE LET from_key == connection_pairs[n][1]
             to_key == connection_pairs[n][2]
             from_node == find_record(node_records, from_key)
         IN  IF from_node # 0
             THEN push_neighbors(
                      [node_records EXCEPT ![from_node].inner.neighbors = Append(@, to_key)],
                      connection_pairs, n + 1)
             ELSE Err([panic |-> "was never added to the GossipBuilder",
                       to_key |-> to_key, from_key |-> from_key])

\* GossipBuilder::build: Ok(Gossip), or Err(the panic)
build(self) ==
    LET node_records ==
            [i \in 1..Len(self.node_info) |->
                GossipNodeRecord(
                    self.node_info[i].node_record_inner,
                    NodeSignatures_from(self.node_info[i].cryptde,
                                        self.node_info[i].node_record_inner))]
        pushed == push_neighbors(node_records, self.connection_pairs, 1)
    IN  IF pushed.ok THEN Ok([node_records |-> pushed.val]) ELSE pushed

\* what the tests hand to the builder
GossipKey1 == <<1, 1>>
GossipKey2 == <<2, 2>>
GossipKey3 == <<3, 3>>
GossipKey4 == <<4, 4>>
UnknownGossipKey == <<9, 9, 9>>

SubstratumNodes ==
    { [public_key |-> GossipKey1, node_addr |-> "1.1.1.1:5550",
       earning_wallet |-> "earning1", consuming_wallet |-> Some("consuming1")],
      [public_key |-> GossipKey2, node_addr |-> "2.2.2.2:5550",
       earning_wallet |-> "earning2", consuming_wallet |-> None] }

\* a record received in some Gossip: it has a neighbor and a version of its own
ReceivedInner ==
    NodeRecordInner(GossipKey3, Some("3.3.3.3:5550"), TRUE, "earning3", None,
                    <<GossipKey1>>, 2)

ReceivedGnrs ==
    { GossipNodeRecord(ReceivedInner,
                       NodeSignatures_from(CryptDENull_from(GossipKey3), ReceivedInner)) }

FictionalNodes ==
    { NodeRecordInner(GossipKey4, None, FALSE, "earning4", Some("consuming4"),
                      <<GossipKey1>>, 3) }

ConnectionPairs ==
    { <<GossipKey1, GossipKey2>>, <<GossipKey1, UnknownGossipKey>>,
      <<GossipKey4, GossipKey2>>, <<UnknownGossipKey, GossipKey1>> }

\* a call of the builder as the test wrote it
BuilderCall(op, arguments) == [op |-> op, arguments |-> arguments]

Added(call) == [builder_calls EXCEPT !.added = Append(@, call)]
Connected(call) == [builder_calls EXCEPT !.connected = Append(@, call)]

InitGossipBuilder ==
    /\ builder = Some(GossipBuilder_new(None))
    /\ gossip_result = None
    /\ builder_calls = [added |-> <<>>, connected |-> <<>>]
    /\ NodeStartupAbsent
    /\ RealNodeAbsent
    /\ ProxyClientAbsent
    /\ NeighborhoodAbsent
    /\ ReceivableDaoAbsent

CanAddNode == IsSome(builder) /\ Len(Unwrap(builder).node_info) < MaxNodes

CallAddNode ==
    /\ CanAddNode
    /\ \E node \in SubstratumNodes, is_bootstrap \in BOOLEAN, include_ip \in BOOLEAN :
           /\ builder' = Some(add_node(Unwrap(builder), node, is_bootstrap, include_ip))
           /\ builder_calls' = Added(
                  BuilderCall("add_node", <<node, is_bootstrap, include_ip>>))
    /\ UNCHANGED gossip_result
    /\ UNCHANGED <<proxy_client_vars, neighborhood_vars, receivable_dao_vars,
                   node_startup_vars, real_node_vars>>

CallAddGnr ==
    /\ CanAddNode
    /\ \E gnr \in ReceivedGnrs :
           /\ builder' = Some(add_gnr(Unwrap(builder), gnr))
           /\ builder_calls' = Added(BuilderCall("add_gnr", <<gnr>>))
    /\ UNCHANGED gossip_result
    /\ UNCHANGED <<proxy_client_vars, neighborhood_vars, receivable_dao_vars,
                   node_startup_vars, real_node_vars>>

CallAddFictionalNode ==
    /\ CanAddNode
    /\ \E node_record \in FictionalNodes :
           /\ builder' = Some(add_fictional_node(Unwrap(builder), node_record))
           /\ builder_calls' = Added(
                  BuilderCall("add_fictional_node", <<node_record>>))
    /\ UNCHANGED gossip_result
    /\ UNCHANGED <<proxy_client_vars, neighborhood_vars, receivable_dao_vars,
                   node_startup_vars, real_node_vars>>

CallAddConnection ==
    /\ IsSome(builder)
    /\ Len(Unwrap(builder).connection_pairs) < MaxConnections
    /\ \E pair \in ConnectionPairs :
           /\ builder' = Some(add_connection(Unwrap(builder), pair[1], pair[2]))
           /\ builder_calls' = Connected(
                  BuilderCall("add_connection", <<pair[1], pair[2]>>))
    /\ UNCHANGED gossip_result
    /\ UNCHANGED <<proxy_client_vars, neighborhood_vars, receivable_dao_vars,
                   node_startup_vars, real_node_vars>>

CallBuild ==
    /\ IsSome(builder)
    /\ gossip_result' = Some(build(Unwrap(builder)))
    /\ builder' = None
    /\ UNCHANGED builder_calls
    /\ UNCHANGED <<proxy_client_vars, neighborhood_vars, receivable_dao_vars,
                   node_startup_vars, real_node_vars>>

NextGossipBuilder ==
    \/ CallAddNode
    \/ CallAddGnr
    \/ CallAddFictionalNode
    \/ CallAddConnection
    \/ CallBuild

SpecGossipBuilder == InitGossipBuilder /\ [][NextGossipBuilder]_vars

\* build() returned a Gossip
Built == IsSome(gossip_result) /\ Unwrap(gossip_result).ok

BuiltRecords == Unwrap(gossip_result).val.node_records

(***************************************************************************)
(* C23: in every Gossip that build() produces, the signatures of every     *)
(* record verify against the record's inner part as the Gossip holds it,   *)
(* neighbors included: complete over the inner record, obscured over the   *)
(* inner record without its address.  Violated: build signs each record    *)
(* before it pushes the neighbors of add_connection into it.               *)
(***************************************************************************)
C23_BuiltSignaturesVerify ==
    Built =>
        \A i \in 1..Len(BuiltRecords) :
            verify(BuiltRecords[i].inner, BuiltRecords[i].signatures)

\* the version stored under a key
stored_version(db, key) == inner_of(db, key).version

NoForbiddenIntermediate(db, path) ==
    \A i \in 2..(Len(path) - 1) :
        /\ path[i] # LocalKey
        /\ IsSome(db[path[i]])
        /\ ~inner_of(db, path[i]).is_bootstrap_node

(***************************************************************************)
(* C25: in a decentralized node, whenever a route query is answered with   *)
(* Some route, no intermediate hop of the route, over or back, is this     *)
(* node (the originator) and none is a bootstrap node; and when the        *)
(* database has no path that satisfies minimum_hop_count and the target of *)
(* the query, the answer is None.                                          *)
(***************************************************************************)
C25_NoOriginatorOrBootstrapRelay ==
    [][(gossips_handled' = gossips_handled /\ is_decentralized(neighborhood_config)) =>
          LET msg == Unwrap(route_query')
              answer == Unwrap(route_response')
          IN  /\ IsSome(answer) =>
                     /\ NoForbiddenIntermediate(database, Unwrap(answer).route.over)
                     /\ NoForbiddenIntermediate(database, Unwrap(answer).route.back)
              /\ routes_over(database, msg) = {} => answer = None]_vars

\* a route through a relay, over and back, from a database that knows a
\* bootstrap node this node names as its neighbor
C25_Witness ==
    /\ IsSome(route_response)
    /\ IsSome(Unwrap(route_response))
    /\ Len(Unwrap(Unwrap(route_response)).route.over) = 3
    /\ Len(Unwrap(Unwrap(route_response)).route.back) = 3
    /\ IsSome(database[BootstrapKey])
    /\ \E n \in 1..Len(inner_of(database, LocalKey).neighbors) :
           inner_of(database, LocalKey).neighbors[n] = BootstrapKey

\* the claim's shape of one direction: as many entries as nodes, Nothing at
\* the head, one Exit, at the tail, and Routing for the nodes between, in order
ServicesFollowPath(db, path, services) ==
    /\ Len(services) = Len(path)
    /\ services[1] = Nothing
    /\ services[Len(path)] =
           Exit(path[Len(path)], inner_of(db, path[Len(path)]).earning_wallet)
    /\ \A i \in 2..(Len(path) - 1) :
           services[i] = Routing(path[i], inner_of(db, path[i]).earning_wallet)

\* the route query answered last found a route
RouteFound == IsSome(route_response) /\ IsSome(Unwrap(route_response))

FoundRoute == Unwrap(Unwrap(route_response)).route

FoundServices == Unwrap(Unwrap(route_response)).expected_services

MaxStartupCalls == 4

\* format!("{}", ip) of an IpAddr::V4
format_ip_addr(ip_addr) ==
    ToString(ip_addr.octets[1]) \o "." \o ToString(ip_addr.octets[2]) \o "."
        \o ToString(ip_addr.octets[3]) \o "." \o ToString(ip_addr.octets[4])

\* Vec<String>::join(",")
RECURSIVE join(_, _)
join(strings, separator) ==
    IF strings = <<>> THEN ""
    ELSE IF Len(strings) = 1 THEN strings[1]
    ELSE strings[1] \o separator \o join(Tail(strings), separator)

\* NodeStartupConfig::join_ip_addrs
join_ip_addrs(ip_addrs) ==
    join([i \in 1..Len(ip_addrs) |-> format_ip_addr(ip_addrs[i])], ",")

NodeReference_new(public_key, ip_addr, ports) ==
    [public_key |-> public_key, node_addr |-> NodeAddr(ip_addr, ports)]

\* the base64 text of the keys the tests use
base64_encode(public_key) ==
    CASE public_key = <<1, 2, 3, 4>> -> "AQIDBA"
      [] public_key = <<2, 3, 4, 5>> -> "AgMEBQ"

\* format!("{}", neighbor) of a NodeReference: <key>:<ip>:<ports>
format_NodeReference(reference) ==
    base64_encode(reference.public_key) \o ":"
        \o format_ip_addr(reference.node_addr.ip_addr) \o ":"
        \o join([i \in 1..Len(reference.node_addr.ports) |->
                    ToString(reference.node_addr.ports[i])], ",")

DEFAULT_EARNING_WALLET == [address |-> "DEFAULT_EARNING_WALLET"]

\* struct NodeStartupConfig and struct NodeStartupConfigBuilder: the same fields
StartupFields ==
    {"ip", "dns_servers", "neighbors", "node_type", "port_count", "dns_target",
     "dns_port", "earning_wallet"}

\* the arguments with the neighbors after the wallet
make_args_neighbors_last(self) ==
    <<"--ip", format_ip_addr(self.ip),
      "--dns_servers", join_ip_addrs(self.dns_servers),
      "--wallet_address", self.earning_wallet.address>>
    \o [i \in 1..(2 * Len(self.neighbors)) |->
            IF i % 2 = 1 THEN "--neighbor"
            ELSE format_NodeReference(self.neighbors[i \div 2])]
    \o <<"--node_type", IF self.node_type = "Standard" THEN "standard" ELSE "bootstrap",
         "--port_count", ToString(self.port_count),
         "--dns_target", format_ip_addr(self.dns_target),
         "--dns_port", ToString(self.dns_port),
         "--log_level", "trace",
         "--data_directory", "/node_root/home">>

\* NodeStartupConfig::make_args
make_args(self) ==
    <<"--ip", format_ip_addr(self.ip),
      "--dns_servers", join_ip_addrs(self.dns_servers)>>
    \o [i \in 1..(2 * Len(self.neighbors)) |->
            IF i % 2 = 1 THEN "--neighbor"
            ELSE format_NodeReference(self.neighbors[i \div 2])]
    \o <<"--wallet_address", self.earning_wallet.address,
         "--node_type", IF self.node_type = "Standard" THEN "standard" ELSE "bootstrap",
         "--port_count", ToString(self.port_count),
         "--dns_target", format_ip_addr(self.dns_target),
         "--dns_port", ToString(self.dns_port),
         "--log_level", "trace",
         "--data_directory", "/node_root/home">>

\* NodeStartupConfigBuilder::zero_hop
zero_hop ==
    [ip |-> sentinel_ip_addr, dns_servers |-> <<IpAddrV4(8, 8, 8, 8)>>,
     neighbors |-> <<>>, node_type |-> "Standard", port_count |-> 0,
     dns_target |-> IpAddrV4(127, 0, 0, 1), dns_port |-> 53,
     earning_wallet |-> DEFAULT_EARNING_WALLET]

\* NodeStartupConfigBuilder::standard
standard ==
    [ip |-> sentinel_ip_addr, dns_servers |-> <<IpAddrV4(8, 8, 8, 8)>>,
     neighbors |-> <<>>, node_type |-> "Standard", port_count |-> 1,
     dns_target |-> IpAddrV4(127, 0, 0, 1), dns_port |-> 53,
     earning_wallet |-> DEFAULT_EARNING_WALLET]

\* NodeStartupConfigBuilder::bootstrap
bootstrap ==
    [ip |-> sentinel_ip_addr, dns_servers |-> <<IpAddrV4(8, 8, 8, 8)>>,
     neighbors |-> <<>>, node_type |-> "Bootstrap", port_count |-> 1,
     dns_target |-> IpAddrV4(127, 0, 0, 1), dns_port |-> 53,
     earning_wallet |-> DEFAULT_EARNING_WALLET]

\* a copy that starts from the default wallet
copy_without_wallet(config) ==
    [ip |-> config.ip, dns_servers |-> config.dns_servers,
     neighbors |-> config.neighbors, node_type |-> config.node_type,
     port_count |-> config.port_count, dns_target |-> config.dns_target,
     dns_port |-> config.dns_port, earning_wallet |-> DEFAULT_EARNING_WALLET]

\* NodeStartupConfigBuilder::copy
copy(config) ==
    [ip |-> config.ip, dns_servers |-> config.dns_servers,
     neighbors |-> config.neighbors, node_type |-> config.node_type,
     port_count |-> config.port_count, dns_target |-> config.dns_target,
     dns_port |-> config.dns_port, earning_wallet |-> config.earning_wallet]

\* the setters ip, dns_servers, neighbors, node_type, port_count, dns_target,
\* dns_port and earning_wallet: self.<field> = value
set_field(self, field, value) == [self EXCEPT ![field] = value]

\* NodeStartupConfigBuilder::neighbor
neighbor(self, value) == [self EXCEPT !.neighbors = Append(@, value)]

\* NodeStartupConfigBuilder::build
NodeStartupConfigBuilder_build(self) ==
    [ip |-> self.ip, dns_servers |-> self.dns_servers, neighbors |-> self.neighbors,
     node_type |-> self.node_type, port_count |-> self.port_count,
     dns_target |-> self.dns_target, dns_port |-> self.dns_port,
     earning_wallet |-> self.earning_wallet]

\* what the tests set
one_neighbor == NodeReference_new(<<1, 2, 3, 4>>, IpAddrV4(4, 5, 6, 7), <<1234, 2345>>)
another_neighbor == NodeReference_new(<<2, 3, 4, 5>>, IpAddrV4(5, 6, 7, 8), <<3456, 4567>>)

SetterValues ==
    [ip |-> {IpAddrV4(1, 3, 5, 7)},
     dns_servers |-> {<<>>, <<IpAddrV4(2, 3, 4, 5), IpAddrV4(3, 4, 5, 6)>>},
     neighbors |-> {<<another_neighbor>>},
     node_type |-> {"Standard", "Bootstrap"},
     port_count |-> {0, 2},
     dns_target |-> {IpAddrV4(8, 9, 10, 11)},
     dns_port |-> {35},
     earning_wallet |-> {[address |-> "booga"]}]

Called_startup(op, value) == Some([op |-> op, value |-> value])

InitNodeStartupConfig ==
    /\ \E preset \in {"zero_hop", "standard", "bootstrap"} :
           /\ startup_builder =
                  Some(CASE preset = "zero_hop" -> zero_hop
                         [] preset = "standard" -> standard
                         [] preset = "bootstrap" -> bootstrap)
           /\ startup_last_call = Called_startup(preset, None)
    /\ startup_config = None
    /\ make_args_result = None
    /\ startup_calls = 0
    /\ GossipBuilderAbsent
    /\ RealNodeAbsent
    /\ ProxyClientAbsent
    /\ NeighborhoodAbsent
    /\ ReceivableDaoAbsent

CanCallStartup == startup_calls < MaxStartupCalls

CallSetter ==
    /\ CanCallStartup
    /\ IsSome(startup_builder)
    /\ \E field \in StartupFields : \E value \in SetterValues[field] :
           /\ startup_builder' = Some(set_field(Unwrap(startup_builder), field, value))
           /\ startup_last_call' = Called_startup(field, value)
    /\ startup_calls' = startup_calls + 1
    /\ UNCHANGED <<startup_config, make_args_result>>
    /\ UNCHANGED <<proxy_client_vars, neighborhood_vars, receivable_dao_vars,
                   gossip_builder_vars, real_node_vars>>

CallNeighbor ==
    /\ CanCallStartup
    /\ IsSome(startup_builder)
    /\ \E value \in {one_neighbor, another_neighbor} :
           /\ startup_builder' = Some(neighbor(Unwrap(startup_builder), value))
           /\ startup_last_call' = Called_startup("neighbor", value)
    /\ startup_calls' = startup_calls + 1
    /\ UNCHANGED <<startup_config, make_args_result>>
    /\ UNCHANGED <<proxy_client_vars, neighborhood_vars, receivable_dao_vars,
                   gossip_builder_vars, real_node_vars>>

\* build(self) takes the builder
CallStartupBuild ==
    /\ CanCallStartup
    /\ IsSome(startup_builder)
    /\ startup_config' = Some(NodeStartupConfigBuilder_build(Unwrap(startup_builder)))
    /\ startup_builder' = None
    /\ startup_last_call' = Called_startup("build", None)
    /\ startup_calls' = startup_calls + 1
    /\ UNCHANGED make_args_result
    /\ UNCHANGED <<proxy_client_vars, neighborhood_vars, receivable_dao_vars,
                   gossip_builder_vars, real_node_vars>>

CallCopy ==
    /\ CanCallStartup
    /\ IsSome(startup_config)
    /\ startup_builder' = Some(copy(Unwrap(startup_config)))
    /\ startup_last_call' = Called_startup("copy", Unwrap(startup_config))
    /\ startup_calls' = startup_calls + 1
    /\ UNCHANGED <<startup_config, make_args_result>>
    /\ UNCHANGED <<proxy_client_vars, neighborhood_vars, receivable_dao_vars,
                   gossip_builder_vars, real_node_vars>>

CallMakeArgs ==
    /\ CanCallStartup
    /\ IsSome(startup_config)
    /\ make_args_result' = Some(make_args(Unwrap(startup_config)))
    /\ startup_last_call' = Called_startup("make_args", None)
    /\ startup_calls' = startup_calls + 1
    /\ UNCHANGED <<startup_builder, startup_config>>
    /\ UNCHANGED <<proxy_client_vars, neighborhood_vars, receivable_dao_vars,
                   gossip_builder_vars, real_node_vars>>

NextNodeStartupConfig ==
    \/ CallSetter
    \/ CallNeighbor
    \/ CallStartupBuild
    \/ CallCopy
    \/ CallMakeArgs

SpecNodeStartupConfig == InitNodeStartupConfig /\ [][NextNodeStartupConfig]_vars

(***************************************************************************)
(* SubstratumRealNode                                                      *)
(* (multinode_integration_tests/src/substratum_real_node.rs): start runs   *)
(* the node in a Docker container and waits until the container's log      *)
(* shows the node's descriptor.  The commands (mkdir, chmod, docker run,   *)
(* docker logs) answer as the host lets them: their answers are inputs.    *)
(***************************************************************************)
TEMPORARY_CONSUMING_WALLET == [address |-> "0xTEMPORARY_CONSUMING_WALLET"]

\* SubstratumNodeUtils::find_project_root
find_project_root == "/project_root"

\* index as u8: the low eight bits
as_u8(index) == index % 256

\* IpAddr::V4(Ipv4Addr::new(172, 18, 1, index as u8))
container_ip_addr(index) == IpAddrV4(172, 18, 1, as_u8(index))

\* format!("test_node_{}", index)
container_name(index) == "test_node_" \o ToString(index)

\* SubstratumRealNode::node_home_dir
node_home_dir(root_dir, name) == root_dir \o "/generated/node_homes/" \o name

\* a configuration made anew from the standard preset when the address is set
real_startup_config_from_preset(config_given, ip_addr) ==
    IF config_given.port_count = 0
    THEN config_given
    ELSE NodeStartupConfigBuilder_build(set_field(standard, "ip", ip_addr))

\* the match on startup_config.port_count in start
real_startup_config_of(config_given, ip_addr) ==
    IF config_given.port_count = 0
    THEN config_given
    ELSE NodeStartupConfigBuilder_build(set_field(copy(config_given), "ip", ip_addr))

\* SubstratumRealNode::do_docker_run: the docker command it ran, the Result it
\* returned and the panic that ended it (None when it returned)
do_docker_run(config_given, root_dir, ip_addr, name, mkdir_exit, chmod_exit, docker_answer) ==
    LET node_command_dir == root_dir \o "/node/target/release"
        host_node_home_dir == node_home_dir(root_dir, name)
        test_runner_node_home_dir == node_home_dir(find_project_root, name)
        docker_args ==
            <<"run", "--detach", "--ip", format_ip_addr(ip_addr), "--dns", "127.0.0.1",
              "--name", name, "--net", "integration_net",
              "-v", node_command_dir \o ":/node_root/node",
              "-v", host_node_home_dir \o ":/node_root/home",
              "-e", "RUST_BACKTRACE=full", "test_node_image",
              "/node_root/node/SubstratumNode">>
            \o make_args(config_given)
    IN  IF mkdir_exit # 0
        THEN [command |-> None, result |-> None,
              panic |-> Some(<<"Couldn't create home directory for node",
                               name, test_runner_node_home_dir>>)]
        ELSE IF chmod_exit # 0
        THEN [command |-> None, result |-> None,
              panic |-> Some(<<"Couldn't chmod 777 home directory for node",
                               name, test_runner_node_home_dir>>)]
        ELSE [command |-> Some(docker_args),
              result |-> Some(IF docker_answer.ok THEN Ok(<<>>) ELSE docker_answer),
              panic |-> None]

\* a line of the container's log: the text before the descriptor's fields and
\* the three fields, all empty in a line that has none
LogLine(prefix, key, ip, ports) == [prefix |-> prefix, key |-> key, ip |-> ip, ports |-> ports]

DescriptorPrefix == "SubstratumNode local descriptor: "

\* the line a node writes for its NodeReference
descriptor_line(reference) ==
    LogLine(DescriptorPrefix, base64_encode(reference.public_key),
            format_ip_addr(reference.node_addr.ip_addr),
            join([i \in 1..Len(reference.node_addr.ports) |->
                     ToString(reference.node_addr.ports[i])], ","))

\* Regex "SubstratumNode local descriptor: ([^:]+:[\d.]+:[\d,]*)" on one
\* line: key and address must not be empty, the ports may be
line_matches(line) ==
    /\ line.prefix = DescriptorPrefix
    /\ line.key # ""
    /\ line.ip # ""

\* regex.captures(output): group 1 of the first match, None without a match
regex_captures(output) ==
    LET matching == {i \in 1..Len(output) : line_matches(output[i])}
    IN  IF matching = {} THEN None
        ELSE LET first == CHOOSE i \in matching : \A j \in matching : i <= j
             IN  Some(output[first].key \o ":" \o output[first].ip \o ":"
                          \o output[first].ports)

\* the nodes whose descriptors the logs show
DescribedReferences ==
    { NodeReference_new(<<1, 2, 3, 4>>, IpAddrV4(172, 18, 1, 1), <<5550, 5551>>),
      NodeReference_new(<<2, 3, 4, 5>>, sentinel_ip_addr, <<>>) }

\* NodeReference::from_str: the reference whose text it is
NodeReference_from_str(text) ==
    IF \E reference \in DescribedReferences : format_NodeReference(reference) = text
    THEN Ok(CHOOSE reference \in DescribedReferences :
                format_NodeReference(reference) = text)
    ELSE Err("invalid NodeReference")

\* one turn of the loop that gives up one turn later
extract_turn_one_more(name, retries, answer) ==
    IF ~answer.ok
    THEN [returned |-> Some(answer), retries_left |-> retries, panic |-> None]
    ELSE LET captures == regex_captures(answer.val)
         IN  IF IsSome(captures)
             THEN LET parsed == NodeReference_from_str(Unwrap(captures))
                  IN  IF parsed.ok
                      THEN [returned |-> Some(parsed), retries_left |-> retries,
                            panic |-> None]
                      ELSE [returned |-> None, retries_left |-> retries,
                            panic |-> Some(<<"called Result::unwrap() on an Err value",
                                             parsed.err>>)]
             ELSE IF retries < 0
             THEN [returned |-> Some(Err("Node " \o name \o " never started")),
                   retries_left |-> retries, panic |-> None]
             ELSE [returned |-> None, retries_left |-> retries - 1, panic |-> None]

\* one turn of the loop of extract_node_reference: what the function returned
\* (None when the loop goes on), the retries left and the panic that ended it
extract_turn(name, retries, answer) ==
    IF ~answer.ok
    THEN [returned |-> Some(answer), retries_left |-> retries, panic |-> None]
    ELSE LET captures == regex_captures(answer.val)
         IN  IF IsSome(captures)
             THEN LET parsed == NodeReference_from_str(Unwrap(captures))
                  IN  IF parsed.ok
                      THEN [returned |-> Some(parsed), retries_left |-> retries,
                            panic |-> None]
                      ELSE [returned |-> None, retries_left |-> retries,
                            panic |-> Some(<<"called Result::unwrap() on an Err value",
                                             parsed.err>>)]
             ELSE IF retries <= 0
             THEN [returned |-> Some(Err("Node " \o name \o " never started")),
                   retries_left |-> retries, panic |-> None]
             ELSE [returned |-> None, retries_left |-> retries - 1, panic |-> None]

SubstratumRealNodeGuts(name, container_ip, node_reference, earning_wallet, consuming_wallet, root_dir) ==
    [name |-> name, container_ip |-> container_ip, node_reference |-> node_reference,
     earning_wallet |-> earning_wallet, consuming_wallet |-> consuming_wallet,
     root_dir |-> root_dir]

\* what the tests start nodes with
StartupConfigs ==
    { NodeStartupConfigBuilder_build(zero_hop),
      NodeStartupConfigBuilder_build(standard),
      NodeStartupConfigBuilder_build(bootstrap),
      NodeStartupConfigBuilder_build(set_field(zero_hop, "ip", IpAddrV4(1, 3, 5, 7))),
      NodeStartupConfigBuilder_build(set_field(standard, "ip", IpAddrV4(1, 3, 5, 7))),
      NodeStartupConfigBuilder_build(
          set_field(set_field(set_field(set_field(set_field(set_field(
              neighbor(bootstrap, one_neighbor),
              "dns_servers", <<IpAddrV4(2, 3, 4, 5), IpAddrV4(3, 4, 5, 6)>>),
              "port_count", 2),
              "dns_target", IpAddrV4(8, 9, 10, 11)),
              "dns_port", 35),
              "earning_wallet", [address |-> "booga"]),
              "ip", IpAddrV4(1, 3, 5, 7))) }

\* the indexes of the nodes of a cluster, up to the end of u8 and past it
NodeIndexes == {1, 2, 255, 256}

HostNodeParentDirs == {None, Some("/host_parent")}

ExitCodes == {0, 1}

OtherLine == LogLine("SubstratumNode starting", "", "", "")
\* a descriptor without an address, as a NodeReference without one is written
AddresslessLine == LogLine(DescriptorPrefix, "AQIDBA", "", "")

\* what docker logs can print
LogOutputs ==
    { <<>>, <<AddresslessLine, OtherLine>> }
    \cup { <<OtherLine, descriptor_line(reference), OtherLine>> :
               reference \in DescribedReferences }

\* what a docker command answers: its output, or the error it ended with
CommandError == Err("Error response from daemon")
LogsAnswers == {CommandError} \cup {Ok(output) : output \in LogOutputs}
RunAnswers == {CommandError, Ok(<<>>)}

InitRealNode ==
    /\ start_call = None
    /\ real_startup_config = None
    /\ docker_run = None
    /\ retries_left = 0
    /\ poll_answers = <<>>
    /\ node_reference_result = None
    /\ guts = None
    /\ start_pc = "ready"
    /\ start_panic = None
    /\ GossipBuilderAbsent
    /\ NodeStartupAbsent
    /\ ProxyClientAbsent
    /\ NeighborhoodAbsent
    /\ ReceivableDaoAbsent

\* SubstratumRealNode::start up to the first docker logs command
StartNode ==
    /\ start_pc = "ready"
    /\ \E config_given \in StartupConfigs, index \in NodeIndexes,
          host_node_parent_dir \in HostNodeParentDirs,
          mkdir_exit \in ExitCodes, chmod_exit \in ExitCodes,
          docker_answer \in RunAnswers :
           LET ip_addr == container_ip_addr(index)
               name == container_name(index)
               config == real_startup_config_of(config_given, ip_addr)
               root_dir == IF IsSome(host_node_parent_dir)
                           THEN Unwrap(host_node_parent_dir)
                           ELSE find_project_root
               ran == do_docker_run(config, root_dir, ip_addr, name,
                                    mkdir_exit, chmod_exit, docker_answer)
               panic == IF IsSome(ran.panic) THEN ran.panic
                        ELSE IF ~Unwrap(ran.result).ok
                        THEN Some(<<"called Result::unwrap() on an Err value",
                                    Unwrap(ran.result).err>>)
                        ELSE None
           IN  /\ start_call' = Some([startup_config |-> config_given,
                                      index |-> index,
                                      host_node_parent_dir |-> host_node_parent_dir])
               /\ real_startup_config' = Some(config)
               /\ docker_run' = ran.command
               /\ start_panic' = panic
               /\ start_pc' = IF IsSome(panic) THEN "panicked" ELSE "extracting"
    /\ retries_left' = 5
    /\ UNCHANGED <<poll_answers, node_reference_result, guts>>
    /\ UNCHANGED <<proxy_client_vars, neighborhood_vars, receivable_dao_vars,
                   gossip_builder_vars, node_startup_vars>>

\* one turn of the loop of extract_node_reference, and the rest of start when
\* the function returns
PollLogs ==
    /\ start_pc = "extracting"
    /\ \E answer \in LogsAnswers :
           LET call == Unwrap(start_call)
               name == container_name(call.index)
               turn == extract_turn(name, retries_left, answer)
               panic == IF IsSome(turn.panic) THEN turn.panic
                        ELSE IF IsSome(turn.returned) /\ ~Unwrap(turn.returned).ok
                        THEN Some(<<"called Result::unwrap() on an Err value",
                                    Unwrap(turn.returned).err>>)
                        ELSE None
           IN  /\ poll_answers' = Append(poll_answers, answer)
               /\ retries_left' = turn.retries_left
               /\ node_reference_result' = turn.returned
               /\ start_panic' = panic
               /\ start_pc' = IF IsSome(panic) THEN "panicked"
                              ELSE IF IsSome(turn.returned) THEN "started"
                              ELSE "extracting"
               /\ guts' = IF IsSome(turn.returned) /\ Unwrap(turn.returned).ok
                          THEN Some(SubstratumRealNodeGuts(
                                        name, container_ip_addr(call.index),
                                        Unwrap(turn.returned).val,
                                        call.startup_config.earning_wallet,
                                        Some(TEMPORARY_CONSUMING_WALLET),
                                        IF IsSome(call.host_node_parent_dir)
                                        THEN Unwrap(call.host_node_parent_dir)
                                        ELSE find_project_root))
                          ELSE None
    /\ UNCHANGED <<start_call, real_startup_config, docker_run>>
    /\ UNCHANGED <<proxy_client_vars, neighborhood_vars, receivable_dao_vars,
                   gossip_builder_vars, node_startup_vars>>

NextRealNode ==
    \/ StartNode
    \/ PollLogs

SpecRealNode == InitRealNode /\ [][NextRealNode]_vars

\* every docker logs command ends, and the loop goes on to its next turn
SpecRealNodeLive == SpecRealNode /\ WF_vars(PollLogs)

\* a call was just made, and it was op
JustCalled(op) ==
    /\ startup_calls' = startup_calls + 1
    /\ Unwrap(startup_last_call').op = op

StartupFlags ==
    {"--ip", "--dns_servers", "--neighbor", "--wallet_address", "--node_type",
     "--port_count", "--dns_target", "--dns_port", "--log_level", "--data_directory"}

\* the text of the addresses and of the neighbors the tests use
IpAddrText(ip_addr) ==
    CASE ip_addr = sentinel_ip_addr -> "255.255.255.255"
      [] ip_addr = IpAddrV4(8, 8, 8, 8) -> "8.8.8.8"
      [] ip_addr = IpAddrV4(127, 0, 0, 1) -> "127.0.0.1"
      [] ip_addr = IpAddrV4(1, 3, 5, 7) -> "1.3.5.7"
      [] ip_addr = IpAddrV4(2, 3, 4, 5) -> "2.3.4.5"
      [] ip_addr = IpAddrV4(3, 4, 5, 6) -> "3.4.5.6"
      [] ip_addr = IpAddrV4(8, 9, 10, 11) -> "8.9.10.11"

DnsServersText(servers) ==
    CASE servers = <<>> -> ""
      [] Len(servers) = 1 -> IpAddrText(servers[1])
      [] Len(servers) = 2 -> IpAddrText(servers[1]) \o "," \o IpAddrText(servers[2])

NeighborText(reference) ==
    CASE reference = one_neighbor -> "AQIDBA:4.5.6.7:1234,2345"
      [] reference = another_neighbor -> "AgMEBQ:5.6.7.8:3456,4567"

(***************************************************************************)
(* C27: make_args returns the arguments in a fixed order: --ip,            *)
(* --dns_servers (the servers joined by commas), one --neighbor with its   *)
(* reference per configured neighbor, in configuration order,              *)
(* --wallet_address, --node_type (standard or bootstrap), --port_count,    *)
(* --dns_target, --dns_port, --log_level trace, --data_directory           *)
(* /node_root/home; and every flag is followed by exactly one value.       *)
(***************************************************************************)
C27_MakeArgsOrder ==
    [][JustCalled("make_args") =>
          LET config == Unwrap(startup_config)
              args == Unwrap(make_args_result')
              n == Len(config.neighbors)
              rest == 4 + 2 * n
          IN  /\ Len(args) = 18 + 2 * n
              /\ \A i \in 1..Len(args) : (i % 2 = 1) <=> (args[i] \in StartupFlags)
              /\ args[1] = "--ip" /\ args[2] = IpAddrText(config.ip)
              /\ args[3] = "--dns_servers"
              /\ args[4] = DnsServersText(config.dns_servers)
              /\ \A i \in 1..n :
                     /\ args[4 + 2 * i - 1] = "--neighbor"
                     /\ args[4 + 2 * i] = NeighborText(config.neighbors[i])
              /\ args[rest + 1] = "--wallet_address"
              /\ args[rest + 2] = config.earning_wallet.address
              /\ args[rest + 3] = "--node_type"
              /\ args[rest + 4] =
                     (IF config.node_type = "Standard" THEN "standard" ELSE "bootstrap")
              /\ config.node_type \in {"Standard", "Bootstrap"}
              /\ args[rest + 5] = "--port_count"
              /\ args[rest + 6] = ToString(config.port_count)
              /\ args[rest + 7] = "--dns_target"
              /\ args[rest + 8] = IpAddrText(config.dns_target)
              /\ args[rest + 9] = "--dns_port"
              /\ args[rest + 10] = ToString(config.dns_port)
              /\ args[rest + 11] = "--log_level" /\ args[rest + 12] = "trace"
              /\ args[rest + 13] = "--data_directory"
              /\ args[rest + 14] = "/node_root/home"]_vars

\* the test can_make_args: standard(), two neighbors, build, make_args
C27_Witness ==
    make_args_result =
        Some(<<"--ip", "255.255.255.255", "--dns_servers", "8.8.8.8",
               "--neighbor", "AQIDBA:4.5.6.7:1234,2345",
               "--neighbor", "AgMEBQ:5.6.7.8:3456,4567",
               "--wallet_address", "DEFAULT_EARNING_WALLET",
               "--node_type", "standard", "--port_count", "1",
               "--dns_target", "127.0.0.1", "--dns_port", "53",
               "--log_level", "trace", "--data_directory", "/node_root/home">>)

\* what all three presets start with
PresetDefaults(preset) ==
    /\ preset.ip = IpAddrV4(255, 255, 255, 255)
    /\ preset.dns_servers = <<IpAddrV4(8, 8, 8, 8)>>
    /\ preset.neighbors = <<>>
    /\ preset.dns_target = IpAddrV4(127, 0, 0, 1)
    /\ preset.dns_port = 53

(***************************************************************************)
(* C28: NodeStartupConfigBuilder.  Each setter (ip, dns_servers,           *)
(* neighbors, node_type, port_count, dns_target, dns_port, earning_wallet) *)
(* sets its own field to the value given, whatever was set before, and     *)
(* changes no other field; neighbor(x) appends x to the neighbors while    *)
(* neighbors(v) replaces them; copy(config) takes every field of config,   *)
(* earning_wallet included, and build hands every field on, so copy then   *)
(* build gives config back; the presets zero_hop, standard and bootstrap   *)
(* start with the sentinel IP, DNS server 8.8.8.8, no neighbors,           *)
(* dns_target 127.0.0.1 and dns_port 53, and differ only in node_type      *)
(* (Standard, Standard, Bootstrap) and port_count (0, 1, 1).               *)
(***************************************************************************)
C28_BuilderSettersCopyAndPresets ==
    /\ [][startup_calls' = startup_calls + 1 =>
             LET call == Unwrap(startup_last_call')
             IN  /\ call.op \in StartupFields =>
                        /\ Unwrap(startup_builder')[call.op] = call.value
                        /\ \A field \in StartupFields \ {call.op} :
                               Unwrap(startup_builder')[field]
                                   = Unwrap(startup_builder)[field]
                 /\ call.op = "neighbor" =>
                        /\ Unwrap(startup_builder').neighbors
                               = Unwrap(startup_builder).neighbors \o <<call.value>>
                        /\ \A field \in StartupFields \ {"neighbors"} :
                               Unwrap(startup_builder')[field]
                                   = Unwrap(startup_builder)[field]
                 /\ call.op = "copy" =>
                        /\ DOMAIN Unwrap(startup_builder') = StartupFields
                        /\ \A field \in StartupFields :
                               Unwrap(startup_builder')[field]
                                   = Unwrap(startup_config)[field]
                 /\ call.op = "build" =>
                        /\ DOMAIN Unwrap(startup_config') = StartupFields
                        /\ \A field \in StartupFields :
                               Unwrap(startup_config')[field]
                                   = Unwrap(startup_builder)[field]
                 /\ (call.op = "build" /\ Unwrap(startup_last_call).op = "copy") =>
                        startup_config' = startup_config]_vars
    /\ [](startup_calls = 0 =>
             LET preset == Unwrap(startup_last_call).op
                 made == Unwrap(startup_builder)
             IN  /\ PresetDefaults(made)
                 /\ made.earning_wallet = DEFAULT_EARNING_WALLET
                 /\ preset = "zero_hop" =>
                        made.node_type = "Standard" /\ made.port_count = 0
                 /\ preset = "standard" =>
                        made.node_type = "Standard" /\ made.port_count = 1
                 /\ preset = "bootstrap" =>
                        made.node_type = "Bootstrap" /\ made.port_count = 1)

\* a configuration built with a wallet of its own, then copied: the builder
\* has every field of it
C28_Witness ==
    /\ IsSome(startup_last_call)
    /\ Unwrap(startup_last_call).op = "copy"
    /\ IsSome(startup_builder)
    /\ IsSome(startup_config)
    /\ Unwrap(startup_builder).earning_wallet = [address |-> "booga"]
    /\ \A field \in StartupFields :
           Unwrap(startup_builder)[field] = Unwrap(startup_config)[field]

(***************************************************************************)
(* C29: the handler of an ExpiredCoresPackage stores the StreamContext of  *)
(* the request when it hands the request to the pool, so what the pool     *)
(* emits for it meets the context: whenever process_package is called, the *)
(* StreamContext of that stream key is stored; and every InboundServerData *)
(* for a key whose request was accepted, with no last_data response for    *)
(* the key forwarded since, finds a StreamContext and is not logged as     *)
(* unsolicited, a response that ends the stream at once included.          *)
(***************************************************************************)
C29_ResponsesFindTheirContext ==
    [][nhandled' = nhandled + 1 =>
          LET message == Unwrap(handled')
          IN  /\ (message.type = "ExpiredCoresPackage" /\ emitted'.pool # <<>>) =>
                     IsSome(stream_contexts'[RequestOf(message.msg).stream_key])
              /\ (/\ message.type = "InboundServerData"
                  /\ IsSome(latest_request[message.msg.stream_key])
                  /\ ~closed[message.msg.stream_key]) =>
                     /\ IsSome(stream_contexts[message.msg.stream_key])
                     /\ \A i \in 1..Len(emitted'.log) :
                            emitted'.log[i].text # "Received unsolicited response: ignoring"]_vars

\* the first thing the pool emits for an accepted request ends the stream, with
\* no data: the response finds the context and goes to Hopper
C29_Witness ==
    /\ HandledSolicited
    /\ HandledMsg.last_data
    /\ HandledMsg.data = <<>>
    /\ IsSome(latest_request[HandledMsg.stream_key])
    /\ Len(hopper_recording) = 1
    /\ Len(process_package_parameters) = 1
    /\ pc = "running"

(***************************************************************************)
(* C30: in every reachable state in which a StreamContext is stored, the   *)
(* Hopper, the Accountant and the StreamHandlerPool are bound; hence the   *)
(* handler of InboundServerData never panics with "Hopper unbound" or      *)
(* "Accountant unbound".                                                   *)
(***************************************************************************)
C30_ContextsOnlyWhenBound ==
    /\ (\E k \in StreamKeys : IsSome(stream_contexts[k])) =>
           /\ IsSome(to_hopper)
           /\ IsSome(to_accountant)
           /\ IsSome(pool)
    /\ panic_message # Some("Hopper unbound")
    /\ panic_message # Some("Accountant unbound")

\* a response with data, for a stream of a paying originator, went to Hopper
\* and was reported to the Accountant, and the StreamContext is still stored
C30_Witness ==
    /\ HandledSolicited
    /\ IsSome(stream_contexts[HandledMsg.stream_key])
    /\ hopper_recording # <<>>
    /\ accountant_recording # <<>>
    /\ pc = "running"

(***************************************************************************)
(* C31: billing never runs ahead of delivery.  In every reachable state    *)
(* the ReportExitServiceProvidedMessages sent to Accountant are at most as *)
(* many as the IncipientCoresPackages sent to Hopper, counting all sends   *)
(* and counting the sends the mailboxes took; and a handler that sent a    *)
(* report for an InboundServerData has sent, and Hopper's mailbox has      *)
(* taken, the IncipientCoresPackage of that same InboundServerData.        *)
(***************************************************************************)
TakenBy(recording) == {i \in 1..Len(recording) : recording[i].result = "Ok"}

C31_BillingNeverAheadOfDelivery ==
    /\ Len(accountant_recording) <= Len(hopper_recording)
    /\ Cardinality(TakenBy(accountant_recording)) <= Cardinality(TakenBy(hopper_recording))
    /\ emitted.accountant # <<>> =>
           /\ HandledSolicited
           /\ Len(emitted.accountant) = 1
           /\ emitted.hopper =
                  <<Sent(IncipientCoresPackage_new(
                             FoundContext.return_route, response_payload(HandledMsg),
                             FoundContext.payload_destination_key).val,
                         "Ok")>>

\* a response of a paid stream was delivered and billed, and a second one was
\* delivered to Hopper while Accountant's mailbox refused its report
C31_Witness ==
    /\ Len(hopper_recording) = 2
    /\ Len(accountant_recording) = 2
    /\ Cardinality(TakenBy(accountant_recording)) = 1
    /\ Cardinality(TakenBy(hopper_recording)) = 2
    /\ HandledSolicited
    /\ emitted.accountant # <<>>

(***************************************************************************)
(* C32: ProxyClient neither reorders nor renumbers responses.  For each    *)
(* stream key, the (sequence_number, data, last_data) triples of the       *)
(* ClientResponsePayloads sent to Hopper are, in the same order, those of  *)
(* the accepted InboundServerData of that key in the order they were       *)
(* handled: every handler of an accepted InboundServerData appends the     *)
(* triple of its message to the triples of its key, and no other step      *)
(* changes the triples of any key.  An InboundServerData is accepted when  *)
(* its StreamContext is found and the package for Hopper can be made.      *)
(***************************************************************************)
Triple(packet) == <<packet.sequence_number, packet.data, packet.last_data>>

\* the payload the receiver of a package opens with its own key
OpenedPayload(package) ==
    decodex(package.payload_destination_key, "ClientResponsePayload", package.payload).val

RECURSIVE ResponsesSent(_, _)
ResponsesSent(recording, key) ==
    IF recording = <<>> THEN <<>>
    ELSE LET payload == OpenedPayload(recording[Len(recording)].msg)
             before == ResponsesSent(SubSeq(recording, 1, Len(recording) - 1), key)
         IN  IF payload.stream_key = key
             THEN Append(before, Triple(payload.sequenced_packet))
             ELSE before

AcceptedResponse(message, contexts) ==
    /\ message.type = "InboundServerData"
    /\ IsSome(contexts[message.msg.stream_key])
    /\ Unwrap(contexts[message.msg.stream_key]).payload_destination_key # EmptyPublicKey

C32_ResponsesKeepOrderAndNumbers ==
    [][\A key \in StreamKeys :
           ResponsesSent(hopper_recording', key) =
               ResponsesSent(hopper_recording, key)
               \o (IF /\ nhandled' = nhandled + 1
                      /\ AcceptedResponse(Unwrap(handled'), stream_contexts)
                      /\ Unwrap(handled').msg.stream_key = key
                   THEN <<Triple(Unwrap(handled').msg)>>
                   ELSE <<>>)]_vars

\* the two chunks of one stream went to Hopper as they came: the first chunk
\* with the reader's first number, then the last one with the next number
C32_Witness ==
    /\ HandledSolicited
    /\ Len(hopper_recording) = 2
    /\ ResponsesSent(hopper_recording, HandledMsg.stream_key) =
           <<<<FirstSequenceNumber, Bytes(1), FALSE>>,
             <<FirstSequenceNumber + 1, <<>>, TRUE>>>>
    /\ pc = "running"

(***************************************************************************)
(* C33: a response that carries no data is handled like any other.  For a  *)
(* stream whose StreamContext has a consuming wallet it is sent to Hopper  *)
(* as one IncipientCoresPackage (given that one can be built, as in C3),   *)
(* and once Hopper's mailbox took the package one                          *)
(* ReportExitServiceProvidedMessage with payload_size 0 is sent to         *)
(* Accountant.  So the reports count the forwarded responses of paid       *)
(* streams, not the non-empty ones: a handler sends one report exactly     *)
(* when it forwarded a response of a paid stream, whatever its length.     *)
(***************************************************************************)
ForwardedPaid ==
    /\ HandledSolicited
    /\ IsSome(FoundContext.consuming_wallet)
    /\ emitted.hopper # <<>>
    /\ emitted.hopper[1].result = "Ok"

C33_EmptyResponsesAreBilled ==
    /\ [](/\ (/\ HandledSolicited
              /\ HandledMsg.data = <<>>
              /\ IsSome(FoundContext.consuming_wallet)
              /\ FoundContext.payload_destination_key # EmptyPublicKey) =>
                 /\ Len(emitted.hopper) = 1
                 /\ OpenedPayload(emitted.hopper[1].msg).sequenced_packet.data = <<>>
                 /\ emitted.hopper[1].result = "Ok" =>
                        /\ Len(emitted.accountant) = 1
                        /\ emitted.accountant[1].msg.payload_size = 0
                        /\ emitted.accountant[1].msg.consuming_wallet =
                               Unwrap(FoundContext.consuming_wallet)
          /\ Len(emitted.accountant) = (IF ForwardedPaid THEN 1 ELSE 0))
    /\ [][Len(accountant_recording') =
              Len(accountant_recording) + Len(emitted'.accountant)]_vars

\* the clean end of a paid stream: the chunk with data was billed, then the
\* empty last chunk was forwarded and billed with payload_size 0
C33_Witness ==
    /\ ForwardedPaid
    /\ HandledMsg.data = <<>>
    /\ HandledMsg.last_data
    /\ HandledMsg.source = ServerAddr
    /\ Len(hopper_recording) = 2
    /\ Len(accountant_recording) = 2
    /\ accountant_recording[1].msg.payload_size > 0
    /\ accountant_recording[2] = Sent(exit_report_message(
                                          Unwrap(FoundContext.consuming_wallet), 0), "Ok")
    /\ pc = "running"

(***************************************************************************)
(* C34: more_money_receivable never decreases a wallet's receivable        *)
(* balance.  For every amount of a u64, those of 2^63 and above included,  *)
(* and every existing or new account, the balance stored after a call that *)
(* returned is greater than or equal to the balance before it (a new       *)
(* account had none: its balance before the call counts as 0), and the     *)
(* balance of every other wallet is as it was.                             *)
(***************************************************************************)
stored_balance(table, wallet_address) ==
    IF table[wallet_address] = None THEN 0
    ELSE Unwrap(table[wallet_address]).balance.value

C34_BalanceNeverDecreases ==
    [][(/\ dao_ncalls' = dao_ncalls + 1
        /\ Unwrap(dao_last_call').op = "more_money_receivable"
        /\ dao_panic' = None
        /\ \A w \in Wallets :
               IsSome(receivable[w]) => Unwrap(receivable[w]).balance # SqlNull) =>
           \A w \in Wallets :
               IF w = Unwrap(dao_last_call').wallet_address
               THEN stored_balance(receivable', w) >= stored_balance(receivable, w)
               ELSE receivable'[w] = receivable[w]]_vars

(***************************************************************************)
(* What the test asked of the builder, read from its calls.                *)
(***************************************************************************)
\* the calls that add a record, and the calls that add a connection, in order
AddCalls == builder_calls.added
ConnectionCalls == builder_calls.connected

\* the key of the record a call adds
KeyOfCall(call) ==
    IF call.op = "add_gnr" THEN call.arguments[1].inner.public_key
    ELSE call.arguments[1].public_key

AddedKeys == {KeyOfCall(AddCalls[i]) : i \in 1..Len(AddCalls)}

\* the neighbors the call's argument brings along
BroughtNeighbors(call) ==
    IF call.op = "add_fictional_node" THEN call.arguments[1].neighbors ELSE <<>>

\* the 'to' keys of the connections from a key, in call order
RECURSIVE DirectedFrom(_, _)
DirectedFrom(calls, key) ==
    IF calls = <<>> THEN <<>>
    ELSE LET last == calls[Len(calls)]
             before == DirectedFrom(SubSeq(calls, 1, Len(calls) - 1), key)
         IN  IF last.arguments[1] = key THEN Append(before, last.arguments[2])
             ELSE before

\* the connections whose 'from' was never added
NeverAdded == {n \in 1..Len(ConnectionCalls) : ConnectionCalls[n].arguments[1] \notin AddedKeys}

(***************************************************************************)
(* C35: build emits one record per add_node, add_gnr or add_fictional_node *)
(* call, in call order.  For every add_connection(from, to), in call       *)
(* order, 'to' is appended to the neighbors of the first record whose key  *)
(* is 'from'; 'to' need not be a key of the builder; no other record gains *)
(* a neighbor.  build panics exactly when some 'from' was never added, and *)
(* names the first such connection.                                        *)
(***************************************************************************)
C35_BuildFollowsTheCalls ==
    IsSome(gossip_result) =>
        /\ Built <=> NeverAdded = {}
        /\ Built =>
               /\ Len(BuiltRecords) = Len(AddCalls)
               /\ \A i \in 1..Len(AddCalls) :
                      LET key == KeyOfCall(AddCalls[i])
                          first == \A j \in 1..(i - 1) : KeyOfCall(AddCalls[j]) # key
                      IN  /\ BuiltRecords[i].inner.public_key = key
                          /\ BuiltRecords[i].inner.neighbors =
                                 BroughtNeighbors(AddCalls[i])
                                 \o (IF first THEN DirectedFrom(ConnectionCalls, key)
                                     ELSE <<>>)
        /\ ~Built =>
               LET n == CHOOSE n \in NeverAdded : \A m \in NeverAdded : n <= m
               IN  Unwrap(gossip_result).err =
                       [panic |-> "was never added to the GossipBuilder",
                        to_key |-> ConnectionCalls[n].arguments[2],
                        from_key |-> ConnectionCalls[n].arguments[1]]

\* one node was added twice and two connections lead from it, the second one to
\* a key nobody added: the first of the two records has both neighbors
C35_Witness ==
    /\ Built
    /\ Len(BuiltRecords) = 2
    /\ BuiltRecords[1].inner.public_key = GossipKey1
    /\ BuiltRecords[2].inner.public_key = GossipKey1
    /\ BuiltRecords[1].inner.neighbors = <<GossipKey2, UnknownGossipKey>>
    /\ BuiltRecords[2].inner.neighbors = <<>>

(***************************************************************************)
(* C36: add_node creates a record of version 0 with no neighbors and with  *)
(* a node address exactly when include_ip is true; add_gnr copies key,     *)
(* address, bootstrap flag, both wallets and version of the record it is   *)
(* given and leaves its neighbors out.  So in the built Gossip the         *)
(* neighbors of such a record come from add_connection calls only: each is *)
(* the 'to' of a connection from the record's key.                         *)
(***************************************************************************)
AddedAsCalled(call, inner) ==
    /\ call.op = "add_node" =>
           LET node == call.arguments[1]
               is_bootstrap == call.arguments[2]
               include_ip == call.arguments[3]
           IN  /\ inner.public_key = node.public_key
               /\ inner.node_addr_opt = (IF include_ip THEN Some(node.node_addr) ELSE None)
               /\ inner.is_bootstrap_node = is_bootstrap
               /\ inner.earning_wallet = node.earning_wallet
               /\ inner.consuming_wallet = node.consuming_wallet
               /\ inner.version = 0
    /\ call.op = "add_gnr" =>
           LET given == call.arguments[1].inner
           IN  /\ inner.public_key = given.public_key
               /\ inner.node_addr_opt = given.node_addr_opt
               /\ inner.is_bootstrap_node = given.is_bootstrap_node
               /\ inner.earning_wallet = given.earning_wallet
               /\ inner.consuming_wallet = given.consuming_wallet
               /\ inner.version = given.version

C36_AddedRecordsHaveNoNeighbors ==
    /\ IsSome(builder) =>
           /\ Len(Unwrap(builder).node_info) = Len(AddCalls)
           /\ \A i \in 1..Len(AddCalls) :
                  LET inner == Unwrap(builder).node_info[i].node_record_inner
                  IN  /\ AddedAsCalled(AddCalls[i], inner)
                      /\ AddCalls[i].op \in {"add_node", "add_gnr"} =>
                             inner.neighbors = <<>>
    /\ Built =>
           \A i \in 1..Len(AddCalls) :
               /\ AddedAsCalled(AddCalls[i], BuiltRecords[i].inner)
               /\ AddCalls[i].op \in {"add_node", "add_gnr"} =>
                      \A n \in 1..Len(BuiltRecords[i].inner.neighbors) :
                          \E c \in 1..Len(ConnectionCalls) :
                              /\ ConnectionCalls[c].arguments[1] =
                                     BuiltRecords[i].inner.public_key
                              /\ ConnectionCalls[c].arguments[2] =
                                     BuiltRecords[i].inner.neighbors[n]

\* a received record that had a neighbor was added and is built without it,
\* with its version; a node added without its address got its one neighbor
\* from add_connection
C36_Witness ==
    /\ Built
    /\ Len(AddCalls) = 2
    /\ AddCalls[1].op = "add_gnr"
    /\ AddCalls[1].arguments[1].inner.neighbors # <<>>
    /\ BuiltRecords[1].inner.neighbors = <<>>
    /\ BuiltRecords[1].inner.version = 2
    /\ AddCalls[2].op = "add_node"
    /\ ~AddCalls[2].arguments[3]
    /\ BuiltRecords[2].inner.node_addr_opt = None
    /\ BuiltRecords[2].inner.version = 0
    /\ BuiltRecords[2].inner.neighbors = <<GossipKey2>>

(***************************************************************************)
(* C37: SubstratumRealNode::start leaves the startup configuration as it   *)
(* was given when its port_count is 0: the node is run with exactly the    *)
(* given fields, so an --ip that was the sentinel 255.255.255.255 stays    *)
(* the sentinel.  Otherwise start replaces the ip field only, by the       *)
(* container address 172.18.1.<index>, and keeps every other field as      *)
(* configured.  The node's arguments in the docker run command are those   *)
(* of that configuration.  (<index> is the last byte of an address: the    *)
(* statement is about the indexes up to 255.)                              *)
(***************************************************************************)
\* the arguments of docker itself come first, the node's after them
NodeArgs == SubSeq(Unwrap(docker_run), 19, Len(Unwrap(docker_run)))

CommandFailed(answer) == ~answer.ok
HasDescriptor(answer) == answer.ok /\ \E i \in 1..Len(answer.val) : line_matches(answer.val[i])
NoDescriptor(answer) == answer.ok /\ \A i \in 1..Len(answer.val) : ~line_matches(answer.val[i])

\* the first line of an output that shows a descriptor
FirstDescriptor(output) ==
    output[CHOOSE i \in 1..Len(output) :
               /\ line_matches(output[i])
               /\ \A j \in 1..(i - 1) : ~line_matches(output[j])]

NeverStarted == Err("Node " \o container_name(Unwrap(start_call).index) \o " never started")

C38_ExtractPollsAtMostSixTimes ==
    /\ [](/\ Len(poll_answers) <= 6
          /\ \A n \in 1..(Len(poll_answers) - 1) : NoDescriptor(poll_answers[n])
          /\ start_pc = "extracting" =>
                 /\ node_reference_result = None
                 /\ Len(poll_answers) < 6
                 /\ retries_left = 5 - Len(poll_answers)
                 /\ \A n \in 1..Len(poll_answers) : NoDescriptor(poll_answers[n])
          /\ IsSome(node_reference_result) =>
                 LET returned == Unwrap(node_reference_result)
                     last == poll_answers[Len(poll_answers)]
                 IN  /\ HasDescriptor(last) =>
                            /\ returned.ok
                            /\ returned.val \in DescribedReferences
                            /\ descriptor_line(returned.val) = FirstDescriptor(last.val)
                     /\ CommandFailed(last) => returned = last
                     /\ NoDescriptor(last) =>
                            /\ Len(poll_answers) = 6
                            /\ returned = NeverStarted
                     /\ returned = NeverStarted =>
                            /\ Len(poll_answers) = 6
                            /\ \A n \in 1..6 : NoDescriptor(poll_answers[n]))
    /\ (start_pc = "extracting") ~> (start_pc \in {"started", "panicked"})

\* five outputs showed no descriptor and the sixth one shows it: the function
\* returned the node's reference with no retry left
C38_Witness ==
    /\ Len(poll_answers) = 6
    /\ retries_left = 0
    /\ HasDescriptor(poll_answers[6])
    /\ IsSome(node_reference_result)
    /\ Unwrap(node_reference_result).ok
    /\ start_pc = "started"
    /\ Unwrap(guts).node_reference = Unwrap(node_reference_result).val

====
